---- MODULE Spec2Model ----
(***************************************************************************)
(* Model of the API gateway template's service-proxy layer                 *)
(* (src/api-gateway-template/src/index.ts, class ServiceProxy): the error  *)
(* classifier transformError, the retry loop of ServiceProxy.request and   *)
(* the transport (axios instance) it drives; of the gateway's error        *)
(* normalizer, example routes and health endpoint; and of the MongoDB      *)
(* service template's database manager and server start-up.                *)
(*                                                                         *)
(* Specifications:                                                         *)
(*   Spec          one logical call on one proxy, from the verb method to  *)
(*                 its return or throw; the transport answers each         *)
(*                 physical attempt with a response or with one of the     *)
(*                 failures axios produces.                                *)
(*   SpecClassify  transformError applied to every raw failure shape       *)
(*                 (code x message x response).                            *)
(*   SpecTimed     one logical call against the wall clock.                *)
(*   SpecHealth    ServiceProxy.healthCheck.                               *)
(*   SpecCalls     logical calls side by side on one proxy.                *)
(*   SpecAggregate aggregateServiceData over a batch of legs.              *)
(*   SpecEnrich    enrichData over a base record and a batch of legs.      *)
(*   SpecBatch     either of the two batch functions, called once.         *)
(*   SpecVerbs     the verb methods and what each attempt sends.           *)
(*   SpecNormalize the error normalizer applied to every error shape.      *)
(*   SpecList      GET /api/example.                                       *)
(*   SpecCreate    POST /api/example.                                      *)
(*   SpecGateway   the gateway's health endpoint.                          *)
(*   SpecStart     Database.connect and startServer.                       *)
(*   SpecStartFair the same under the event loop's scheduling.             *)
(***************************************************************************)
EXTENDS Integers, Sequences, FiniteSets, TLC

\* ------------------------------------------------------------------------
\* Bounds
\* ------------------------------------------------------------------------

\* Largest retry budget (config.retries or options.retries) explored.
MaxRetries == 4

\* ------------------------------------------------------------------------
\* Program constants
\* ------------------------------------------------------------------------

BaseDelayMs == 1000
MaxDelayMs == 5000
\* Granularity of the passage of time while a backoff timer is pending.
TickMs == 1000

ServiceName == "serviceA"

Verbs == {"GET", "POST", "PUT", "DELETE", "PATCH"}

\* ------------------------------------------------------------------------
\* Strings (String.prototype.includes / toLowerCase)
\* ------------------------------------------------------------------------

UpperChars == "ABCDEFGHIJKLMNOPQRSTUVWXYZ"
LowerChars == "abcdefghijklmnopqrstuvwxyz"

\* s.includes(t)
Includes(s, t) ==
  \E i \in 1..(Len(s) - Len(t) + 1) : SubSeq(s, i, i + Len(t) - 1) = t

\* upper-case letter |-> lower-case letter
LowerOf ==
  [c \in {SubSeq(UpperChars, i, i) : i \in 1..26} |->
     LET i == CHOOSE j \in 1..26 : SubSeq(UpperChars, j, j) = c
     IN SubSeq(LowerChars, i, i)]

LowerChar(c) == IF c \in DOMAIN LowerOf THEN LowerOf[c] ELSE c

RECURSIVE LowerFrom(_, _)
LowerFrom(s, i) ==
  IF i > Len(s) THEN ""
  ELSE LowerChar(SubSeq(s, i, i)) \o LowerFrom(s, i + 1)

\* s.toLowerCase()
toLowerCase(s) == LowerFrom(s, 1)

\* ------------------------------------------------------------------------
\* errors/index.ts
\* ------------------------------------------------------------------------

mapStatusToDefaultCode(status) ==
  CASE status = 400 -> "VALIDATION_ERROR"
    [] status = 401 -> "AUTH_REQUIRED"
    [] status = 403 -> "FORBIDDEN"
    [] status = 404 -> "NOT_FOUND"
    [] status = 405 -> "METHOD_NOT_ALLOWED"
    [] status = 409 -> "CONFLICT"
    [] status = 429 -> "RATE_LIMITED"
    [] status = 500 -> "INTERNAL"
    [] status = 502 -> "GATEWAY_ERROR"
    [] status = 503 -> "SERVICE_UNAVAILABLE"
    [] status = 504 -> "TIMEOUT"
    [] OTHER -> IF status >= 500 THEN "INTERNAL" ELSE "VALIDATION_ERROR"

\* status || 500
StatusOr500(status) == IF status = 0 THEN 500 ELSE status

deriveCodeFromMessage(message, status) ==
  IF message = "" THEN mapStatusToDefaultCode(StatusOr500(status))
  ELSE LET lowerMessage == toLowerCase(message) IN
    CASE Includes(lowerMessage, "duplicate") \/ Includes(lowerMessage, "e11000")
           -> "DUPLICATE_KEY"
      [] Includes(lowerMessage, "validation") \/ Includes(lowerMessage, "invalid")
           -> "VALIDATION_ERROR"
      [] Includes(lowerMessage, "not found") \/ Includes(lowerMessage, "missing")
           -> "NOT_FOUND"
      [] Includes(lowerMessage, "timeout") \/ Includes(lowerMessage, "etimedout")
           -> "TIMEOUT"
      [] Includes(lowerMessage, "unauthorized") \/ Includes(lowerMessage, "auth")
           -> "AUTH_REQUIRED"
      [] Includes(lowerMessage, "forbidden") \/ Includes(lowerMessage, "access denied")
           -> "FORBIDDEN"
      [] Includes(lowerMessage, "rate limit") \/ Includes(lowerMessage, "too many")
           -> "RATE_LIMITED"
      [] OTHER -> mapStatusToDefaultCode(StatusOr500(status))

\* ------------------------------------------------------------------------
\* Values
\* ------------------------------------------------------------------------

\* error.response absent
NoResponse == [present |-> FALSE, status |-> 0, data |-> ""]

HttpResponse(status, data) == [present |-> TRUE, status |-> status, data |-> data]

\* A raw failure as the axios instance rejects with it.  An absent code is
\* "", an absent message is "" (undefined?.includes(..) and undefined || d
\* behave as for the empty string).
RawError(code, message, response) ==
  [code |-> code, message |-> message, response |-> response]

\* lastError = null
NoError == [none |-> TRUE]

\* no value returned (yet)
NoResult == [none |-> TRUE]

\* ------------------------------------------------------------------------
\* ServiceProxy.transformError (response interceptor)
\* ------------------------------------------------------------------------

\* error.message || fallback
MessageOr(message, fallback) == IF message = "" THEN fallback ELSE message

\* Variant: the response branch tested before the timeout branch.
ClassifyErrorResponseFirst(error) ==
  IF error.code = "ECONNREFUSED" \/ error.code = "ENOTFOUND"
  THEN [message |-> "Service " \o ServiceName \o " is unavailable",
        isNetworkError |-> TRUE, isTimeout |-> FALSE,
        status |-> 503, response |-> NoResponse]
  ELSE IF error.response.present
  THEN [message |-> MessageOr(error.message, "Service request failed"),
        isNetworkError |-> FALSE, isTimeout |-> FALSE,
        status |-> error.response.status, response |-> error.response]
  ELSE IF error.code = "ETIMEDOUT" \/ Includes(error.message, "timeout")
  THEN [message |-> "Request to " \o ServiceName \o " timed out",
        isNetworkError |-> FALSE, isTimeout |-> TRUE,
        status |-> 504, response |-> NoResponse]
  ELSE [message |-> MessageOr(error.message, "Unknown service error"),
        isNetworkError |-> FALSE, isTimeout |-> FALSE,
        status |-> 502, response |-> NoResponse]

\* The fields set by the if / else-if chain, before the code is derived.
ClassifyError(error) ==
  IF error.code = "ECONNREFUSED" \/ error.code = "ENOTFOUND"
  THEN [message |-> "Service " \o ServiceName \o " is unavailable",
        isNetworkError |-> TRUE, isTimeout |-> FALSE,
        status |-> 503, response |-> NoResponse]
  ELSE IF error.code = "ETIMEDOUT" \/ Includes(error.message, "timeout")
  THEN [message |-> "Request to " \o ServiceName \o " timed out",
        isNetworkError |-> FALSE, isTimeout |-> TRUE,
        status |-> 504, response |-> NoResponse]
  ELSE IF error.response.present
  THEN [message |-> MessageOr(error.message, "Service request failed"),
        isNetworkError |-> FALSE, isTimeout |-> FALSE,
        status |-> error.response.status, response |-> error.response]
  ELSE [message |-> MessageOr(error.message, "Unknown service error"),
        isNetworkError |-> FALSE, isTimeout |-> FALSE,
        status |-> 502, response |-> NoResponse]

transformError(error) ==
  LET proxyError == ClassifyError(error) IN
    [message |-> proxyError.message,
     isNetworkError |-> proxyError.isNetworkError,
     isTimeout |-> proxyError.isTimeout,
     status |-> proxyError.status,
     response |-> proxyError.response,
     code |-> deriveCodeFromMessage(proxyError.message, proxyError.status)]

\* new GatewayError(`Failed to connect to ${serviceName}`)
GatewayError ==
  [message |-> "Failed to connect to " \o ServiceName,
   isNetworkError |-> FALSE, isTimeout |-> FALSE,
   status |-> 502, response |-> NoResponse, code |-> "GATEWAY_ERROR"]

\* ------------------------------------------------------------------------
\* ServiceProxy.request: the pieces of the retry loop
\* ------------------------------------------------------------------------

\* options.retries absent
NoOverride == [defined |-> FALSE, value |-> 0]

Override(n) == [defined |-> TRUE, value |-> n]

\* Variant: options.retries || this.config.retries (0 taken for absent).
EffectiveRetriesOrDefault(optRetries, configRetries) ==
  IF optRetries.defined /\ optRetries.value # 0
  THEN optRetries.value ELSE configRetries

\* const { retries = this.config.retries } = options
EffectiveRetries(optRetries, configRetries) ==
  IF optRetries.defined THEN optRetries.value ELSE configRetries

\* while (attempt <= retries)
LoopCondition(att, budget) == att <= budget

\* Variant: 429 left out of the client errors.
NonRetryableBut429(err) ==
  /\ err.status # 0
  /\ err.status # 429
  /\ (err.status < 500 \/ err.status = 501 \/ err.status = 505)

\* Variant: only status < 500 breaks.
NonRetryableBelow500(err) ==
  /\ err.status # 0
  /\ err.status < 500

\* Variant: status <= 500 breaks.
NonRetryableUpTo500(err) ==
  /\ err.status # 0
  /\ (err.status <= 500 \/ err.status = 501 \/ err.status = 505)

\* lastError.status && (status < 500 || status === 501 || status === 505)
NonRetryable(err) ==
  /\ err.status # 0
  /\ (err.status < 500 \/ err.status = 501 \/ err.status = 505)

\* Variant: attempt > retries + 1.
ExhaustedLate(att, budget) == att > budget + 1

\* if (attempt > retries) break
Exhausted(att, budget) == att > budget

RECURSIVE Pow2(_)
Pow2(n) == IF n <= 0 THEN 1 ELSE 2 * Pow2(n - 1)

Min(a, b) == IF a <= b THEN a ELSE b

\* Variant: no cap.
BackoffDelayUncapped(att) == BaseDelayMs * Pow2(att - 1)

\* Math.min(1000 * Math.pow(2, attempt - 1), 5000)
BackoffDelay(att) == Min(BaseDelayMs * Pow2(att - 1), MaxDelayMs)

\* Variant: lastError = lastError || error (the first failure is kept).
CaughtFirstError(prev, error) == IF prev = NoError THEN error ELSE prev

\* lastError = error
CaughtError(prev, error) == error

\* Variant: status fixed to 200.
MakeResponseStatus200(response) == [data |-> response.data, status |-> 200]

\* The value returned on success (responseTime and headers are not modelled).
MakeResponse(response) == [data |-> response.data, status |-> response.status]

\* Variant: the sleep is not awaited.
SleepNotAwaited(left) == TRUE

\* sleep(ms): the promise resolves once the timer has run down.
SleepElapsed(left) == left = 0

\* ------------------------------------------------------------------------
\* The transport (axios instance) as the proxy sees it
\* ------------------------------------------------------------------------

\* 2xx responses the backend answers with.
SuccessResponses == {HttpResponse(200, "itemA"), HttpResponse(201, "itemB")}

\* Statuses axios rejects (validateStatus: 200 <= status < 300 resolves).
ErrorStatuses == {304, 400, 404, 429, 500, 501, 505}

\* axios: `Request failed with status code ${status}`
HttpFailure(status) ==
  RawError(IF status >= 500 THEN "ERR_BAD_RESPONSE" ELSE "ERR_BAD_REQUEST",
           "Request failed with status code " \o ToString(status),
           HttpResponse(status, "errorBody"))

ConnectionRefused == RawError("ECONNREFUSED", "connect ECONNREFUSED", NoResponse)

\* axios: `timeout of ${timeout}ms exceeded`, code ECONNABORTED
AxiosTimeout == RawError("ECONNABORTED", "timeout of 5000ms exceeded", NoResponse)

NetworkFailure == RawError("ERR_NETWORK", "Network Error", NoResponse)

\* The failures the transport produces in the retry-loop specification.
TransportFailures ==
  {ConnectionRefused, AxiosTimeout, NetworkFailure}
    \cup {HttpFailure(st) : st \in ErrorStatuses}

\* Outcome of one physical attempt as the log keeps it: the response, or the
\* raw failure together with the ProxyError the interceptor rejected with.
Succeeded(response) ==
  [ok |-> TRUE, response |-> response, error |-> NoError, rejected |-> NoError]

Failed(error, proxyError) ==
  [ok |-> FALSE, response |-> NoResponse, error |-> error, rejected |-> proxyError]

\* Every raw failure shape, for the classifier on its own.
RawCodes ==
  {"", "ECONNREFUSED", "ENOTFOUND", "ETIMEDOUT", "ECONNABORTED", "ERR_BAD_RESPONSE"}

RawMessages ==
  {"", "timeout of 5000ms exceeded", "Request timeout", "Timeout",
   "Network Error", "Request failed"}

RawResponses ==
  {NoResponse} \cup {HttpResponse(st, "errorBody") : st \in ErrorStatuses \cup {503, 504}}

RawErrors ==
  {RawError(c, m, r) : c \in RawCodes, m \in RawMessages, r \in RawResponses}

\* options.retries as callers pass it
OptionRetries == {NoOverride, Override(0), Override(1)}

\* ------------------------------------------------------------------------
\* State
\* ------------------------------------------------------------------------

VARIABLES
  config,        \* this.config (retries)
  options,       \* options of the logical call (retries)
  pc,            \* position of the request coroutine
  method,        \* requestConfig.method of the logical call
  retries,       \* effective retry budget of the logical call
  attempt,       \* local `attempt`
  lastError,     \* local `lastError`
  inflight,      \* physical attempts issued and not yet settled
  requestCount,  \* calls of axiosInstance.request in this logical call
  log,           \* transport outcomes of this logical call, in order
  slept,         \* delays passed to sleep(), in order
  timer,         \* milliseconds left on the pending sleep timer
  result,        \* value the call resolved with
  thrown,        \* error the call rejected with
  rawIn,         \* SpecClassify: the raw failure given to transformError
  classified     \* SpecClassify: the ProxyError it produced

\* Wall-clock time around one logical call (SpecTimed).
VARIABLES
  now,           \* Date.now()
  startTime,     \* local `startTime` of request()
  attemptStart,  \* Date.now() when the attempt in flight was issued
  failedMs,      \* time the failed attempts of the call were in flight
  responseTime   \* responseTime of the value the call resolved with

timeVars == <<now, startTime, attemptStart, failedMs, responseTime>>

\* ServiceProxy.healthCheck (SpecHealth).
VARIABLES
  configTimeout, \* this.config.timeout
  hPc,           \* position of the healthCheck coroutine
  hStart,        \* local `startTime` of healthCheck()
  hProbes,       \* requests healthCheck handed to axiosInstance.get
  hOutcome,      \* what the transport answered the probe with
  hResult        \* value healthCheck resolved with

healthVars == <<configTimeout, hPc, hStart, hProbes, hOutcome, hResult>>

\* Logical calls running side by side, one per slot (SpecCalls and the
\* legs of a batch).  Each variable is a function of the slot.
VARIABLES
  proxyRetries,  \* config.retries of the proxy the call is made on
  callOpt,       \* options.retries of the call
  callPc,        \* position of the call's request coroutine
  callRetries,   \* local `retries`
  callAttempt,   \* local `attempt`
  callLastError, \* local `lastError`
  callSent,      \* calls of axiosInstance.request made by the call
  callLog,       \* transport outcomes delivered to the call, in order
  callSlept,     \* delays the call passed to sleep(), in order
  callTimer,     \* milliseconds left on the call's pending sleep timer
  callResult,    \* value the call resolved with
  callThrown     \* error the call rejected with

slotVars == <<proxyRetries, callOpt, callPc, callRetries, callAttempt,
              callLastError, callSent, callLog, callSlept, callTimer,
              callResult, callThrown>>

\* One batch of aggregateServiceData or enrichData; its legs are the calls
\* in slots 1..Len(requests).
VARIABLES
  bPc,        \* "idle", "waiting" (at await Promise.allSettled), "resolved"
  requests,   \* the key of each leg, in the order of the argument
  baseData,   \* the object the caller passed as baseData
  fresh,      \* the object the batch function created
  target,     \* which object `results` / `enrichedData` refers to
  settled,    \* legs whose promise has settled
  order,      \* legs in the order they completed
  returned    \* which object the batch function returned, "none" before

batchVars == <<bPc, requests, baseData, fresh, target, settled, order, returned>>

\* What a verb method hands to the transport (SpecVerbs).
VARIABLES
  body,           \* the `data` argument of the verb method
  requestConfig,  \* the local `requestConfig` of request()
  wire            \* the configs passed to axiosInstance.request, in order

verbVars == <<body, requestConfig, wire>>

\* The final error handler of the gateway (SpecNormalize).
VARIABLES
  nodeEnv,    \* process.env.NODE_ENV
  errIn,      \* the error handed to errorNormalizer
  resStatus,  \* argument of res.status(), 0 before the call
  resBody     \* argument of res.json()

normVars == <<nodeEnv, errIn, resStatus, resBody>>

\* A request to the example routes (SpecList, SpecCreate).
VARIABLES
  route,  \* the handler that is running: "none", "list" or "create"
  reply   \* what the handler did with the response, NoResult before

routeVars == <<route, reply>>

\* The gateway's health endpoint (SpecGateway).
VARIABLES
  gwServices,      \* names of the services in config.SERVICES
  gwPc,            \* position of the healthCheck middleware
  gwPending,       \* services whose proxy.healthCheck() has not settled
  serviceStatuses, \* the record checkServicesHealth fills
  gwReply          \* what the middleware answered, NoResult before

gwVars == <<gwServices, gwPc, gwPending, serviceStatuses, gwReply>>

\* The database manager and the server of the MongoDB service template
\* (SpecStart, SpecStartFair).
VARIABLES
  dbEnv,        \* NODE_ENV of the service process
  reachable,    \* whether mongoose.connect would succeed now
  isConnected,  \* Database.isConnected
  dbPc,         \* position of the pending connect(): "idle", "connecting",
                \* "retryWait" (timer set), "done" or "failed"
  retryTimer,   \* ms left on the setTimeout of the catch block
  connectCalls, \* connect() calls that reached mongoose.connect, counted
                \* up to MaxConnectCalls
  listeners,    \* setupEventListeners has run
  firstCall,    \* promise of the caller's connect(): "none", "pending",
                \* "resolved" or "rejected"
  srvPc         \* startServer: "init", "connecting", "listening", "exited"

dbVars == <<dbEnv, reachable, isConnected, dbPc, retryTimer, connectCalls,
            listeners, firstCall, srvPc>>

moreVars == <<gwVars, dbVars>>

\* State of the parts of the gateway and of the service template outside the
\* service-proxy layer.
restVars == <<verbVars, normVars, routeVars, moreVars>>

vars == <<config, options, pc, method, retries, attempt, lastError, inflight,
          requestCount, log, slept, timer, result, thrown, rawIn, classified,
          timeVars, healthVars, slotVars, batchVars, restVars>>

callVars == <<config, options, pc, method, retries, attempt, lastError, inflight,
              requestCount, log, slept, timer, result, thrown>>

classifyVars == <<rawIn, classified>>

\* Everything a logical call on the proxy does not touch.
nonCallVars == <<classifyVars, timeVars, healthVars, slotVars, batchVars,
                 restVars>>

\* State outside the retry loop and the clock.
sideVars == <<classifyVars, healthVars, slotVars, batchVars, restVars>>

\* No failure is being classified.
ClassifyIdle ==
  /\ rawIn = NoError
  /\ classified = NoError

\* No clock is read.
TimeIdle ==
  /\ now = 0
  /\ startTime = 0
  /\ attemptStart = 0
  /\ failedMs = 0
  /\ responseTime = 0

\* Largest number of logical calls side by side (legs of a batch).
MaxLegs == 2

Slots == 1..MaxLegs

\* No call has been made in any slot.
SlotsIdle ==
  /\ proxyRetries = [c \in Slots |-> 0]
  /\ callOpt = [c \in Slots |-> NoOverride]
  /\ callPc = [c \in Slots |-> "idle"]
  /\ callRetries = [c \in Slots |-> 0]
  /\ callAttempt = [c \in Slots |-> 0]
  /\ callLastError = [c \in Slots |-> NoError]
  /\ callSent = [c \in Slots |-> 0]
  /\ callLog = [c \in Slots |-> <<>>]
  /\ callSlept = [c \in Slots |-> <<>>]
  /\ callTimer = [c \in Slots |-> 0]
  /\ callResult = [c \in Slots |-> NoResult]
  /\ callThrown = [c \in Slots |-> NoError]

\* Field names of the records handled by the batch functions.
FieldNames == {"id", "a", "b", "primaryItems", "metadata"}

\* A field that is not in the object, the value null, and a data value.
Absent == [kind |-> "absent"]

NullValue == [kind |-> "null"]

Data(v) == [kind |-> "data", value |-> v]

\* The object literal {}.
EmptyObject == [f \in FieldNames |-> Absent]

\* No batch function has been called.
BatchIdle ==
  /\ bPc = "idle"
  /\ requests = <<>>
  /\ fresh = EmptyObject
  /\ target = "fresh"
  /\ settled = {}
  /\ order = <<>>
  /\ returned = "none"

\* No body at all (get, delete) as opposed to a body value.
NoBody == [none |-> TRUE]

Body(v) == [none |-> FALSE, value |-> v]

\* No verb method has been called.
VerbIdle ==
  /\ body = NoBody
  /\ requestConfig = [method |-> "", data |-> NoBody]
  /\ wire = <<>>

\* No error has reached the final error handler.
NormIdle ==
  /\ nodeEnv = "test"
  /\ errIn = NoError
  /\ resStatus = 0
  /\ resBody = NoResult

\* Nothing has happened outside the service-proxy layer.
\* No request has reached the example routes.
RouteIdle ==
  /\ route = "none"
  /\ reply = NoResult

\* The three services of config.SERVICES.
ServiceNames == {"serviceA", "serviceB", "serviceC"}

\* The health endpoint has not been requested.
GwIdle ==
  /\ gwServices = ServiceNames
  /\ gwPc = "idle"
  /\ gwPending = {}
  /\ serviceStatuses = [s \in ServiceNames |-> NoResult]
  /\ gwReply = NoResult

\* The service process has loaded its modules: private isConnected = false.
DbIdle ==
  /\ dbEnv = "development"
  /\ reachable = TRUE
  /\ isConnected = FALSE
  /\ dbPc = "idle"
  /\ retryTimer = 0
  /\ connectCalls = 0
  /\ listeners = FALSE
  /\ firstCall = "none"
  /\ srvPc = "init"

MoreIdle == GwIdle /\ DbIdle

RestIdle == VerbIdle /\ NormIdle /\ RouteIdle /\ MoreIdle

\* No health probe has been made.
HealthIdle ==
  /\ hPc = "idle"
  /\ hStart = 0
  /\ hProbes = <<>>
  /\ hOutcome = NoResult
  /\ hResult = NoResult

\* ServiceProxy constructor: no call has been made.
ProxyIdle ==
  /\ options = [retries |-> NoOverride]
  /\ pc = "idle"
  /\ method = ""
  /\ retries = 0
  /\ attempt = 0
  /\ lastError = NoError
  /\ inflight = {}
  /\ requestCount = 0
  /\ log = <<>>
  /\ slept = <<>>
  /\ timer = 0
  /\ result = NoResult
  /\ thrown = NoError

Init ==
  /\ config \in [retries : 0..MaxRetries]
  /\ ProxyIdle
  /\ ClassifyIdle
  /\ TimeIdle
  /\ configTimeout = 15000
  /\ HealthIdle
  /\ SlotsIdle
  /\ baseData = EmptyObject
  /\ BatchIdle
  /\ RestIdle

\* ------------------------------------------------------------------------
\* ServiceProxy.request
\* ------------------------------------------------------------------------

\* Head of the while loop, reached on entry and after each sleep: either the
\* next physical attempt is issued or the loop is left and the call throws.
LoopHead(att, budget, err, sent) ==
  IF LoopCondition(att, budget)
  THEN /\ pc' = "awaiting"
       /\ inflight' = inflight \cup {sent + 1}
       /\ requestCount' = sent + 1
       /\ thrown' = NoError
  ELSE /\ pc' = "thrown"
       /\ inflight' = inflight
       /\ requestCount' = sent
       /\ thrown' = IF err = NoError THEN GatewayError ELSE err

\* get / post / put / delete / patch -> request(method, path, options)
CallStep(verb, optRetries) ==
  /\ pc = "idle"
  /\ options' = [retries |-> optRetries]
  /\ method' = verb
  /\ retries' = EffectiveRetries(optRetries, config.retries)
  /\ attempt' = 0
  /\ lastError' = NoError
  /\ log' = <<>>
  /\ slept' = <<>>
  /\ timer' = 0
  /\ result' = NoResult
  /\ LoopHead(0, retries', NoError, 0)
  /\ UNCHANGED config

Call(verb, optRetries) ==
  /\ CallStep(verb, optRetries)
  /\ UNCHANGED nonCallVars

\* The awaited request resolves: the call returns the response.
RespondOkStep(response) ==
  /\ pc = "awaiting"
  /\ inflight' = inflight \ {requestCount}
  /\ log' = Append(log, Succeeded(response))
  /\ result' = MakeResponse(response)
  /\ pc' = "returned"
  /\ UNCHANGED <<config, options, method, retries, attempt, lastError, requestCount,
                 slept, timer, thrown>>

RespondOk(response) ==
  /\ RespondOkStep(response)
  /\ UNCHANGED nonCallVars

\* The awaited request rejects: the response interceptor transforms the
\* failure and the catch block runs up to the break or the sleep.
RespondFailStep(error) ==
  /\ pc = "awaiting"
  /\ inflight' = inflight \ {requestCount}
  /\ LET proxyError == transformError(error) IN
       /\ log' = Append(log, Failed(error, proxyError))
       /\ lastError' = CaughtError(lastError, proxyError)
  /\ attempt' = attempt + 1
  /\ IF NonRetryable(lastError') \/ Exhausted(attempt', retries)
     THEN /\ pc' = "thrown"
          /\ thrown' = lastError'
          /\ UNCHANGED <<slept, timer>>
     ELSE /\ pc' = "sleeping"
          /\ timer' = BackoffDelay(attempt')
          /\ slept' = Append(slept, BackoffDelay(attempt'))
          /\ UNCHANGED thrown
  /\ UNCHANGED <<config, options, method, retries, requestCount, result>>

RespondFail(error) ==
  /\ RespondFailStep(error)
  /\ UNCHANGED nonCallVars

\* Time passes while the coroutine is suspended in sleep().
Tick ==
  /\ pc = "sleeping"
  /\ timer > 0
  /\ timer' = IF timer > TickMs THEN timer - TickMs ELSE 0
  /\ UNCHANGED <<config, options, pc, method, retries, attempt, lastError, inflight,
                 requestCount, log, slept, result, thrown, nonCallVars>>

\* The sleep promise resolves and the loop goes round.
WakeStep ==
  /\ pc = "sleeping"
  /\ SleepElapsed(timer)
  /\ LoopHead(attempt, retries, lastError, requestCount)
  /\ UNCHANGED <<config, options, method, retries, attempt, lastError, log, slept,
                 timer, result>>

Wake ==
  /\ WakeStep
  /\ UNCHANGED nonCallVars

Next ==
  \/ \E verb \in Verbs, optRetries \in OptionRetries : Call(verb, optRetries)
  \/ \E response \in SuccessResponses : RespondOk(response)
  \/ \E error \in TransportFailures : RespondFail(error)
  \/ Tick
  \/ Wake

Spec == Init /\ [][Next]_vars

\* ------------------------------------------------------------------------
\* The classifier on its own
\* ------------------------------------------------------------------------

InitClassify ==
  /\ config = [retries |-> 0]
  /\ ProxyIdle
  /\ rawIn \in RawErrors
  /\ classified = NoError
  /\ TimeIdle
  /\ configTimeout = 15000
  /\ HealthIdle
  /\ SlotsIdle
  /\ baseData = EmptyObject
  /\ BatchIdle
  /\ RestIdle

\* The response interceptor's rejection handler.
Classify ==
  /\ rawIn # NoError
  /\ classified = NoError
  /\ classified' = transformError(rawIn)
  /\ UNCHANGED <<callVars, rawIn, timeVars, healthVars, slotVars, batchVars,
                 restVars>>

NextClassify == Classify

SpecClassify == InitClassify /\ [][NextClassify]_vars

\* ------------------------------------------------------------------------
\* One logical call against the wall clock (SpecTimed)
\* ------------------------------------------------------------------------

\* Largest retry budget explored with the clock running.
MaxTimedRetries == 2

\* The clock stops advancing here.
MaxClockMs == 6000

\* Transport failures used with the clock running: one retried, one not.
TimedFailures == {HttpFailure(500), ConnectionRefused, HttpFailure(404)}

InitTimed ==
  /\ config \in [retries : 0..MaxTimedRetries]
  /\ ProxyIdle
  /\ ClassifyIdle
  /\ TimeIdle
  /\ configTimeout = 15000
  /\ HealthIdle
  /\ SlotsIdle
  /\ baseData = EmptyObject
  /\ BatchIdle
  /\ RestIdle

\* Variant: the clock is read at the start of the attempt.
ElapsedSinceAttempt(callStart, issued, t) == t - issued

\* Date.now() - startTime, with startTime read once on entry to request()
ElapsedSince(callStart, issued, t) == t - callStart

\* Time passes: the clock advances and a pending sleep timer runs down.
Elapse ==
  /\ pc \in {"idle", "awaiting", "sleeping"}
  /\ now < MaxClockMs
  /\ now' = now + TickMs
  /\ timer' = IF pc = "sleeping"
              THEN (IF timer > TickMs THEN timer - TickMs ELSE 0)
              ELSE timer
  /\ UNCHANGED <<config, options, pc, method, retries, attempt, lastError,
                 inflight, requestCount, log, slept, result, thrown,
                 sideVars, startTime, attemptStart, failedMs, responseTime>>

\* request(): const startTime = Date.now(), then the first attempt.
TimedCall(verb) ==
  /\ CallStep(verb, NoOverride)
  /\ startTime' = now
  /\ attemptStart' = now
  /\ UNCHANGED <<sideVars, now, failedMs, responseTime>>

\* const responseTime = Date.now() - startTime
TimedRespondOk(response) ==
  /\ RespondOkStep(response)
  /\ responseTime' = ElapsedSince(startTime, attemptStart, now)
  /\ UNCHANGED <<sideVars, now, startTime, attemptStart, failedMs>>

TimedRespondFail(error) ==
  /\ RespondFailStep(error)
  /\ failedMs' = failedMs + (now - attemptStart)
  /\ UNCHANGED <<sideVars, now, startTime, attemptStart, responseTime>>

TimedWake ==
  /\ WakeStep
  /\ attemptStart' = now
  /\ UNCHANGED <<sideVars, now, startTime, failedMs, responseTime>>

NextTimed ==
  \/ Elapse
  \/ TimedCall("GET")
  \/ \E response \in SuccessResponses : TimedRespondOk(response)
  \/ \E error \in TimedFailures : TimedRespondFail(error)
  \/ TimedWake

SpecTimed == InitTimed /\ [][NextTimed]_vars

\* ------------------------------------------------------------------------
\* ServiceProxy.healthCheck (SpecHealth)
\* ------------------------------------------------------------------------

\* SERVICE_A/B/C_TIMEOUT defaults of the configuration.
ConfigTimeouts == {5000, 10000, 15000}

InitHealth ==
  /\ config \in [retries : 0..MaxRetries]
  /\ ProxyIdle
  /\ ClassifyIdle
  /\ TimeIdle
  /\ configTimeout \in ConfigTimeouts
  /\ HealthIdle
  /\ SlotsIdle
  /\ baseData = EmptyObject
  /\ BatchIdle
  /\ RestIdle

\* Variant: the probe uses the configured timeout.
HealthProbeConfigTimeout(cfgTimeout) ==
  [method |-> "GET", url |-> "/health", timeout |-> cfgTimeout]

\* this.axiosInstance.get('/health', { timeout: 5000 })
HealthProbe(cfgTimeout) ==
  [method |-> "GET", url |-> "/health", timeout |-> 5000]

\* { status: 'healthy', responseTime }
Healthy(elapsed) ==
  [status |-> "healthy", responseTime |-> elapsed,
   hasError |-> FALSE, error |-> ""]

\* Variant: the error code is reported instead of the message.
UnhealthyWithCode(elapsed, err) ==
  [status |-> "unhealthy", responseTime |-> elapsed,
   hasError |-> TRUE, error |-> err.code]

\* { status: 'unhealthy', responseTime, error: error.message }
Unhealthy(elapsed, err) ==
  [status |-> "unhealthy", responseTime |-> elapsed,
   hasError |-> TRUE, error |-> err.message]

\* Time passes before and during the probe.
HealthElapse ==
  /\ hPc \in {"idle", "probing"}
  /\ now < MaxClockMs
  /\ now' = now + TickMs
  /\ UNCHANGED <<callVars, classifyVars, healthVars, slotVars, batchVars, restVars,
                 startTime, attemptStart, failedMs, responseTime>>

\* healthCheck() up to the await.
HealthCheck ==
  /\ hPc = "idle"
  /\ hStart' = now
  /\ hProbes' = Append(hProbes, HealthProbe(configTimeout))
  /\ hPc' = "probing"
  /\ UNCHANGED <<callVars, classifyVars, timeVars, slotVars, batchVars, restVars,
                 configTimeout, hOutcome, hResult>>

\* The probe resolves.
HealthOk(response) ==
  /\ hPc = "probing"
  /\ hOutcome' = Succeeded(response)
  /\ hResult' = Healthy(now - hStart)
  /\ hPc' = "resolved"
  /\ UNCHANGED <<callVars, classifyVars, timeVars, slotVars, batchVars, restVars,
                 configTimeout, hStart, hProbes>>

\* The probe rejects: the interceptor transforms the failure and the catch
\* block reports it.
HealthFail(error) ==
  /\ hPc = "probing"
  /\ LET proxyError == transformError(error) IN
       /\ hOutcome' = Failed(error, proxyError)
       /\ hResult' = Unhealthy(now - hStart, proxyError)
  /\ hPc' = "resolved"
  /\ UNCHANGED <<callVars, classifyVars, timeVars, slotVars, batchVars, restVars,
                 configTimeout, hStart, hProbes>>

NextHealth ==
  \/ HealthElapse
  \/ HealthCheck
  \/ \E response \in SuccessResponses : HealthOk(response)
  \/ \E error \in TransportFailures : HealthFail(error)

SpecHealth == InitHealth /\ [][NextHealth]_vars

\* ------------------------------------------------------------------------
\* Logical calls side by side (SpecCalls)
\*
\* Every invocation of request() has its own activation: the parameters and
\* the locals `retries`, `attempt` and `lastError` are per call, and the
\* proxy object holds no per-call field.  A call occupies one slot.
\* ------------------------------------------------------------------------

\* Largest retry budget configured on the proxy the calls share.
MaxCallRetries == 2

\* Transport failures delivered to calls side by side: two retried (one
\* with a response, one without) and one not retried.
SlotFailures == {HttpFailure(500), ConnectionRefused, HttpFailure(404)}

\* The callers that use the proxy side by side.
Callers == {1, 2}

\* What the response interceptor rejects with, per transport failure.
Intercepted == [error \in SlotFailures |-> transformError(error)]

\* Variant: `attempt` and `lastError` kept in one place for all calls.
LocalsShared(c) == 1

\* Where the `let` locals of call c live: in the call's own activation.
LocalsOf(c) == c

\* The calls of the set S enter request() in one synchronous stretch, call
\* c with options.retries = opt[c] on a proxy with config.retries = cfg[c].
StartStep(S, opt, cfg) ==
  /\ S # {}
  /\ \A c \in S : callPc[c] = "idle"
  /\ proxyRetries' = [c \in Slots |-> IF c \in S THEN cfg[c] ELSE proxyRetries[c]]
  /\ callOpt' = [c \in Slots |-> IF c \in S THEN opt[c] ELSE callOpt[c]]
  /\ callRetries' = [c \in Slots |->
                       IF c \in S THEN EffectiveRetries(opt[c], cfg[c])
                       ELSE callRetries[c]]
  /\ callAttempt' = [i \in Slots |->
                       IF \E c \in S : LocalsOf(c) = i THEN 0 ELSE callAttempt[i]]
  /\ callLastError' = [i \in Slots |->
                         IF \E c \in S : LocalsOf(c) = i THEN NoError
                         ELSE callLastError[i]]
  /\ callPc' = [c \in Slots |->
                  IF c \notin S THEN callPc[c]
                  ELSE IF LoopCondition(0, callRetries'[c]) THEN "awaiting"
                  ELSE "thrown"]
  /\ callSent' = [c \in Slots |->
                    IF c \in S /\ LoopCondition(0, callRetries'[c]) THEN 1
                    ELSE callSent[c]]
  /\ callThrown' = [c \in Slots |->
                      IF c \in S /\ ~LoopCondition(0, callRetries'[c])
                      THEN GatewayError ELSE callThrown[c]]
  /\ UNCHANGED <<callLog, callSlept, callTimer, callResult>>

\* The request awaited by call c resolves: the call returns the response.
SlotOkStep(c, response) ==
  /\ callPc[c] = "awaiting"
  /\ callLog' = [callLog EXCEPT ![c] = Append(@, Succeeded(response))]
  /\ callResult' = [callResult EXCEPT ![c] = MakeResponse(response)]
  /\ callPc' = [callPc EXCEPT ![c] = "returned"]
  /\ UNCHANGED <<proxyRetries, callOpt, callRetries, callAttempt, callLastError,
                 callSent, callSlept, callTimer, callThrown>>

\* The request awaited by call c rejects: the catch block of that call runs
\* up to the break or the sleep.
SlotFailStep(c, error) ==
  /\ callPc[c] = "awaiting"
  /\ LET proxyError == Intercepted[error]
         kept == CaughtError(callLastError[LocalsOf(c)], proxyError)
         att == callAttempt[LocalsOf(c)] + 1
     IN
       /\ callLog' = [callLog EXCEPT ![c] = Append(@, Failed(error, proxyError))]
       /\ callLastError' = [callLastError EXCEPT ![LocalsOf(c)] = kept]
       /\ callAttempt' = [callAttempt EXCEPT ![LocalsOf(c)] = att]
       /\ IF NonRetryable(kept) \/ Exhausted(att, callRetries[c])
          THEN /\ callPc' = [callPc EXCEPT ![c] = "thrown"]
               /\ callThrown' = [callThrown EXCEPT ![c] = kept]
               /\ UNCHANGED <<callSlept, callTimer>>
          ELSE /\ callPc' = [callPc EXCEPT ![c] = "sleeping"]
               /\ callTimer' = [callTimer EXCEPT ![c] = BackoffDelay(att)]
               /\ callSlept' = [callSlept EXCEPT ![c] = Append(@, BackoffDelay(att))]
               /\ UNCHANGED callThrown
  /\ UNCHANGED <<proxyRetries, callOpt, callRetries, callSent, callResult>>

\* Time passes: every pending sleep timer runs down together.
SlotTickStep ==
  /\ \E c \in Slots : callPc[c] = "sleeping" /\ callTimer[c] > 0
  /\ callTimer' = [c \in Slots |->
                     IF callTimer[c] > TickMs THEN callTimer[c] - TickMs ELSE 0]
  /\ UNCHANGED <<proxyRetries, callOpt, callPc, callRetries, callAttempt,
                 callLastError, callSent, callLog, callSlept, callResult,
                 callThrown>>

\* The sleep promise of call c resolves and its loop goes round.
SlotWakeStep(c) ==
  /\ callPc[c] = "sleeping"
  /\ SleepElapsed(callTimer[c])
  /\ IF LoopCondition(callAttempt[LocalsOf(c)], callRetries[c])
     THEN /\ callPc' = [callPc EXCEPT ![c] = "awaiting"]
          /\ callSent' = [callSent EXCEPT ![c] = @ + 1]
          /\ UNCHANGED callThrown
     ELSE /\ callPc' = [callPc EXCEPT ![c] = "thrown"]
          /\ callThrown' = [callThrown EXCEPT ![c] =
                              IF callLastError[LocalsOf(c)] = NoError
                              THEN GatewayError ELSE callLastError[LocalsOf(c)]]
          /\ UNCHANGED callSent
  /\ UNCHANGED <<proxyRetries, callOpt, callRetries, callAttempt, callLastError,
                 callLog, callSlept, callTimer, callResult>>

\* State outside the slots.
nonSlotVars == <<callVars, classifyVars, timeVars, healthVars, batchVars,
                 restVars>>

InitCalls ==
  /\ config \in [retries : 0..MaxCallRetries]
  /\ ProxyIdle
  /\ ClassifyIdle
  /\ TimeIdle
  /\ configTimeout = 15000
  /\ HealthIdle
  /\ SlotsIdle
  /\ baseData = EmptyObject
  /\ BatchIdle
  /\ RestIdle

\* A caller invokes the shared proxy while other calls may be under way.
SlotCall(c, optRetries) ==
  /\ StartStep({c}, [d \in Slots |-> optRetries], [d \in Slots |-> config.retries])
  /\ UNCHANGED nonSlotVars

SlotOk(c, response) ==
  /\ SlotOkStep(c, response)
  /\ UNCHANGED nonSlotVars

SlotFail(c, error) ==
  /\ SlotFailStep(c, error)
  /\ UNCHANGED nonSlotVars

SlotTick ==
  /\ SlotTickStep
  /\ UNCHANGED nonSlotVars

SlotWake(c) ==
  /\ SlotWakeStep(c)
  /\ UNCHANGED nonSlotVars

NextCalls ==
  \/ \E c \in Callers, optRetries \in OptionRetries : SlotCall(c, optRetries)
  \/ \E c \in Callers, response \in SuccessResponses : SlotOk(c, response)
  \/ \E c \in Callers, error \in SlotFailures : SlotFail(c, error)
  \/ SlotTick
  \/ \E c \in Callers : SlotWake(c)

SpecCalls == InitCalls /\ [][NextCalls]_vars

\* ------------------------------------------------------------------------
\* aggregateServiceData (SpecAggregate)
\*
\* requests.map(async ...) runs each leg's arrow function synchronously up
\* to its first await, so every leg's get() has entered request() and issued
\* its first attempt before the aggregator reaches Promise.allSettled.  A
\* leg is a call in a slot; when its get() settles the rest of the arrow
\* function, the settling of the leg's promise and, after the last leg, the
\* return of the aggregator run as one chain of microtasks.
\* ------------------------------------------------------------------------

\* Largest retry budget configured on a proxy used by a leg.
MaxLegRetries == 1

\* Keys the legs of a batch may name.
BatchKeys == {"a", "b"}

\* The object a reference denotes.
Cell(ref) == IF ref = "base" THEN baseData ELSE fresh

\* Variant: obj = { [key]: value }, the other entries are dropped.
AssignReplacing(obj, key, value) ==
  [f \in FieldNames |-> IF f = key THEN value ELSE Absent]

\* obj[key] = value
Assign(obj, key, value) == [obj EXCEPT ![key] = value]

\* key in obj
HasKey(obj, key) == obj[key] # Absent

\* The object `ref` denotes becomes obj; the other object is untouched.
Store(ref, obj) ==
  IF ref = "base"
  THEN baseData' = obj /\ fresh' = fresh
  ELSE fresh' = obj /\ baseData' = baseData

\* Variant: the legs run one after another, only the first at once.
DispatchedFirstOnly(n) == {1}

\* Legs whose arrow function is run by requests.map before it returns.
Dispatched(n) == 1..n

\* Variant: Promise.race, fulfilled by the first leg to settle.
AnySettled(done, n) == done # {}

\* Promise.allSettled is fulfilled once every leg's promise has settled.
AllSettled(done, n) == done = 1..n

\* The promise of leg c settles; the batch function returns its object if
\* that fulfils the awaited Promise.allSettled.
Settle(c) ==
  /\ settled' = settled \cup {c}
  /\ order' = Append(order, c)
  /\ IF bPc = "waiting" /\ AllSettled(settled', Len(requests))
     THEN bPc' = "resolved" /\ returned' = target
     ELSE UNCHANGED <<bPc, returned>>
  /\ UNCHANGED <<requests, target>>

\* Variant: a failed leg leaves the map alone.
AggOnFailureSkip(obj, key) == obj

\* Variant: a failed leg stores null only under a key not yet in the map.
AggOnFailureIfAbsent(obj, key) ==
  IF HasKey(obj, key) THEN obj ELSE Assign(obj, key, NullValue)

\* catch: results[key] = null
AggOnFailure(obj, key) == Assign(obj, key, NullValue)

\* State outside the slots and the batch.
outsideBatch == <<callVars, classifyVars, timeVars, healthVars, restVars>>

InitAggregate ==
  /\ config = [retries |-> 0]
  /\ ProxyIdle
  /\ ClassifyIdle
  /\ TimeIdle
  /\ configTimeout = 15000
  /\ HealthIdle
  /\ SlotsIdle
  /\ baseData = EmptyObject
  /\ BatchIdle
  /\ RestIdle

\* aggregateServiceData(requests) up to await Promise.allSettled: leg i
\* names keys[i] and uses a proxy with config.retries = cfg[i].
AggregateCallStep(keys, cfg) ==
  /\ bPc = "idle"
  /\ StartStep(Dispatched(Len(keys)), [c \in Slots |-> NoOverride],
               [c \in Slots |-> IF c <= Len(keys) THEN cfg[c] ELSE 0])
  /\ requests' = keys
  /\ fresh' = EmptyObject
  /\ target' = "fresh"
  /\ bPc' = "waiting"
  /\ UNCHANGED <<baseData, settled, order, returned>>

AggregateCall(keys, cfg) ==
  /\ AggregateCallStep(keys, cfg)
  /\ UNCHANGED outsideBatch

\* The get() of leg c resolves: results[key] = response.data.
AggLegOkStep(c, response) ==
  /\ c \in 1..Len(requests)
  /\ SlotOkStep(c, response)
  /\ Store(target, Assign(Cell(target), requests[c], Data(callResult'[c].data)))
  /\ Settle(c)

AggLegOk(c, response) ==
  /\ AggLegOkStep(c, response)
  /\ UNCHANGED outsideBatch

\* An attempt of leg c fails: its get() either goes on to sleep or rejects,
\* and then the catch block stores null.
AggLegFailStep(c, error) ==
  /\ c \in 1..Len(requests)
  /\ SlotFailStep(c, error)
  /\ IF callPc'[c] = "thrown"
     THEN /\ Store(target, AggOnFailure(Cell(target), requests[c]))
          /\ Settle(c)
     ELSE UNCHANGED batchVars

AggLegFail(c, error) ==
  /\ AggLegFailStep(c, error)
  /\ UNCHANGED outsideBatch

\* A leg's sleep ends and its next attempt is issued.
AggLegWakeStep(c) ==
  /\ c \in 1..Len(requests)
  /\ SlotWakeStep(c)
  /\ IF callPc'[c] = "thrown"
     THEN /\ Store(target, AggOnFailure(Cell(target), requests[c]))
          /\ Settle(c)
     ELSE UNCHANGED batchVars

AggLegWake(c) ==
  /\ AggLegWakeStep(c)
  /\ UNCHANGED outsideBatch

\* Time passes while legs sleep.
BatchTick ==
  /\ SlotTickStep
  /\ UNCHANGED <<batchVars, outsideBatch>>

NextAggregate ==
  \/ \E n \in 1..MaxLegs :
       \E keys \in [1..n -> BatchKeys], cfg \in [1..n -> 0..MaxLegRetries] :
         AggregateCall(keys, cfg)
  \/ \E c \in Slots, response \in SuccessResponses : AggLegOk(c, response)
  \/ \E c \in Slots, error \in SlotFailures : AggLegFail(c, error)
  \/ \E c \in Slots : AggLegWake(c)
  \/ BatchTick

SpecAggregate == InitAggregate /\ [][NextAggregate]_vars

\* ------------------------------------------------------------------------
\* enrichData (SpecEnrich)
\*
\* Same fan-out as the aggregator, over a copy of the caller's record.
\* ------------------------------------------------------------------------

\* Base records passed by callers: `id` is in every one of them, and the
\* keys the legs may name are in some and not in others.
BaseRecord(a, b) ==
  [f \in FieldNames |->
     IF f = "id" THEN Data("rec1")
     ELSE IF f = "a" THEN a
     ELSE IF f = "b" THEN b
     ELSE Absent]

BaseRecords ==
  { BaseRecord(Absent, Absent),
    BaseRecord(Data("old"), Absent),
    BaseRecord(Data("old"), Data("kept")) }

\* Variant: enrichedData = baseData, the caller's own object.
AliasedTo(ref) == ref

\* { ...baseData } is a new object; `enrichedData` refers to it.
CopiedTo(ref) == "fresh"

\* Variant: a failed leg stores null whatever is under the key.
EnrichOnFailureAlways(obj, key) == Assign(obj, key, NullValue)

\* catch: if (!(key in enrichedData)) enrichedData[key] = null
EnrichOnFailure(obj, key) ==
  IF HasKey(obj, key) THEN obj ELSE Assign(obj, key, NullValue)

InitEnrich ==
  /\ config = [retries |-> 0]
  /\ ProxyIdle
  /\ ClassifyIdle
  /\ TimeIdle
  /\ configTimeout = 15000
  /\ HealthIdle
  /\ SlotsIdle
  /\ baseData \in BaseRecords
  /\ BatchIdle
  /\ RestIdle

\* enrichData(baseData, enrichments) up to await Promise.allSettled.
EnrichCallStep(keys, cfg) ==
  /\ bPc = "idle"
  /\ StartStep(Dispatched(Len(keys)), [c \in Slots |-> NoOverride],
               [c \in Slots |-> IF c <= Len(keys) THEN cfg[c] ELSE 0])
  /\ requests' = keys
  /\ fresh' = baseData
  /\ target' = CopiedTo("base")
  /\ bPc' = "waiting"
  /\ UNCHANGED <<baseData, settled, order, returned>>

EnrichCall(keys, cfg) ==
  /\ EnrichCallStep(keys, cfg)
  /\ UNCHANGED outsideBatch

\* The get() of leg c resolves: enrichedData[key] = response.data.
EnrichLegOkStep(c, response) ==
  /\ c \in 1..Len(requests)
  /\ SlotOkStep(c, response)
  /\ Store(target, Assign(Cell(target), requests[c], Data(callResult'[c].data)))
  /\ Settle(c)

EnrichLegOk(c, response) ==
  /\ EnrichLegOkStep(c, response)
  /\ UNCHANGED outsideBatch

\* An attempt of leg c fails: its get() either goes on to sleep or rejects,
\* and then the catch block runs.
EnrichLegFailStep(c, error) ==
  /\ c \in 1..Len(requests)
  /\ SlotFailStep(c, error)
  /\ IF callPc'[c] = "thrown"
     THEN /\ Store(target, EnrichOnFailure(Cell(target), requests[c]))
          /\ Settle(c)
     ELSE UNCHANGED batchVars

EnrichLegFail(c, error) ==
  /\ EnrichLegFailStep(c, error)
  /\ UNCHANGED outsideBatch

\* A leg's sleep ends and its next attempt is issued.
EnrichLegWakeStep(c) ==
  /\ c \in 1..Len(requests)
  /\ SlotWakeStep(c)
  /\ IF callPc'[c] = "thrown"
     THEN /\ Store(target, EnrichOnFailure(Cell(target), requests[c]))
          /\ Settle(c)
     ELSE UNCHANGED batchVars

EnrichLegWake(c) ==
  /\ EnrichLegWakeStep(c)
  /\ UNCHANGED outsideBatch

NextEnrich ==
  \/ \E n \in 1..MaxLegs :
       \E keys \in [1..n -> BatchKeys], cfg \in [1..n -> 0..MaxLegRetries] :
         EnrichCall(keys, cfg)
  \/ \E c \in Slots, response \in SuccessResponses : EnrichLegOk(c, response)
  \/ \E c \in Slots, error \in SlotFailures : EnrichLegFail(c, error)
  \/ \E c \in Slots : EnrichLegWake(c)
  \/ BatchTick

SpecEnrich == InitEnrich /\ [][NextEnrich]_vars

\* ------------------------------------------------------------------------
\* The verb methods and what reaches the transport (SpecVerbs)
\* ------------------------------------------------------------------------

\* Largest retry budget configured on the proxy.
MaxVerbRetries == 2

\* Bodies callers pass to post, put and patch.
Bodies == {Body("bodyA"), Body("bodyB")}

\* Verbs whose method takes a `data` argument.
BodyVerbs == {"POST", "PUT", "PATCH"}

\* Variant: put and patch forward their options only, as delete does.
VerbBodyPostOnly(verb, data) == IF verb = "POST" THEN data ELSE NoBody

\* options.data as the verb method passes it on: post, put and patch spread
\* { data, ...options }, get passes params and delete passes its options.
VerbBody(verb, data) == IF verb \in BodyVerbs THEN data ELSE NoBody

\* const requestConfig = { method: method.toLowerCase(), url, data, ... }
RequestConfigOf(verb, data) == [method |-> toLowerCase(verb), data |-> data]

\* State outside the call and what it sends.
outsideVerbs == <<classifyVars, timeVars, healthVars, slotVars, batchVars,
                  normVars, routeVars, moreVars>>

InitVerbs ==
  /\ config \in [retries : 0..MaxVerbRetries]
  /\ ProxyIdle
  /\ ClassifyIdle
  /\ TimeIdle
  /\ configTimeout = 15000
  /\ HealthIdle
  /\ SlotsIdle
  /\ baseData = EmptyObject
  /\ BatchIdle
  /\ RestIdle

\* A verb method is called with `data` and request() runs up to its first
\* await.
VerbCall(verb, data) ==
  /\ CallStep(verb, NoOverride)
  /\ body' = data
  /\ requestConfig' = RequestConfigOf(verb, VerbBody(verb, data))
  /\ wire' = IF pc' = "awaiting" THEN <<requestConfig'>> ELSE <<>>
  /\ UNCHANGED outsideVerbs

\* The sleep ends; the next attempt passes the same requestConfig.
VerbWake ==
  /\ WakeStep
  /\ wire' = IF pc' = "awaiting" THEN Append(wire, requestConfig) ELSE wire
  /\ UNCHANGED <<body, requestConfig, outsideVerbs>>

NextVerbs ==
  \/ \E verb \in Verbs :
       \E data \in (IF verb \in BodyVerbs THEN Bodies ELSE {NoBody}) :
         VerbCall(verb, data)
  \/ \E response \in SuccessResponses : RespondOk(response)
  \/ \E error \in TimedFailures : RespondFail(error)
  \/ Tick
  \/ VerbWake

SpecVerbs == InitVerbs /\ [][NextVerbs]_vars

\* ------------------------------------------------------------------------
\* The error normalizer (SpecNormalize)
\*
\* An error object is a record with every property the normalizer reads; an
\* absent string property is "", an absent number is 0.  The property
\* `code` is a string for gateway errors and the number 11000 for MongoDB
\* duplicate-key errors: the string is kept in `code`, the number in
\* `codeNum`.
\* ------------------------------------------------------------------------

\* a || b on strings and on optional values
StrOr(a, b) == IF a # "" THEN a ELSE b

\* An absent `details` and a details value (an object or an array, truthy).
NoDetails == [none |-> TRUE]

Details(v) == [none |-> FALSE, value |-> v]

DetOr(a, b) == IF a # NoDetails THEN a ELSE b

\* STATUS_BY_CODE
StatusByCode ==
  [VALIDATION_ERROR |-> 400, CAST_ERROR |-> 400, AUTH_REQUIRED |-> 401,
   INVALID_TOKEN |-> 401, FORBIDDEN |-> 403, NOT_FOUND |-> 404,
   METHOD_NOT_ALLOWED |-> 405, CONFLICT |-> 409, DUPLICATE_KEY |-> 409,
   RATE_LIMITED |-> 429, INTERNAL |-> 500, SERVICE_UNAVAILABLE |-> 503,
   TIMEOUT |-> 504, GATEWAY_ERROR |-> 502]

\* DEFAULT_MESSAGE_BY_CODE
DefaultMessageByCode ==
  [VALIDATION_ERROR |-> "Invalid request parameters",
   CAST_ERROR |-> "Invalid data format",
   AUTH_REQUIRED |-> "Authentication required",
   INVALID_TOKEN |-> "Invalid authentication token",
   FORBIDDEN |-> "Access denied",
   NOT_FOUND |-> "Resource not found",
   METHOD_NOT_ALLOWED |-> "Method not allowed",
   CONFLICT |-> "Resource conflict",
   DUPLICATE_KEY |-> "Duplicate resource",
   RATE_LIMITED |-> "Too many requests",
   INTERNAL |-> "Internal server error",
   SERVICE_UNAVAILABLE |-> "Service temporarily unavailable",
   TIMEOUT |-> "Request timeout",
   GATEWAY_ERROR |-> "Gateway error"]

\* DEFAULT_MESSAGE_BY_CODE[code], "" when the code is not a key
DefaultMessage(code) ==
  IF code \in DOMAIN DefaultMessageByCode THEN DefaultMessageByCode[code] ELSE ""

\* messages.join(', ')
RECURSIVE JoinComma(_)
JoinComma(q) ==
  IF q = <<>> THEN ""
  ELSE IF Len(q) = 1 THEN q[1]
  ELSE q[1] \o ", " \o JoinComma(Tail(q))

\* data.error of an upstream body: absent, a string or an object.
NoErrField == [kind |-> "absent"]

ErrString(text) == [kind |-> "string", text |-> text]

ErrObject(code, message, details) ==
  [kind |-> "object", code |-> code, message |-> message, details |-> details]

\* err.response.data || {}
UpstreamData(isObject, successFalse, error, message, details) ==
  [isObject |-> isObject, successFalse |-> successFalse, error |-> error,
   message |-> message, details |-> details]

EmptyData == UpstreamData(TRUE, FALSE, NoErrField, "", NoDetails)

Upstream(status, data) == [present |-> TRUE, status |-> status, data |-> data]

\* An error with no property set.
BlankError ==
  [response |-> NoResponse, isApp |-> FALSE, isJoi |-> FALSE, name |-> "Error",
   code |-> "", codeNum |-> 0, status |-> 0, statusCode |-> 0,
   message |-> "", publicMessage |-> "", details |-> NoDetails,
   errors |-> NoDetails, path |-> "", value |-> "", kind |-> "",
   keyValue |-> ""]

\* new AppError(message, code, status, details)
AppError(message, code, status, details) ==
  [BlankError EXCEPT !.isApp = TRUE, !.name = "AppError", !.message = message,
                     !.code = code,
                     !.status = IF status # 0 THEN status
                                ELSE IF code \in DOMAIN StatusByCode
                                THEN StatusByCode[code] ELSE 500,
                     !.details = details]

Normalized(status, code, message, details) ==
  [status |-> status, code |-> code, message |-> message, details |-> details]

\* if (err.response && err.response.status) { ... }
NormalizeUpstream(err) ==
  LET status == err.response.status
      data == err.response.data
  IN
    IF data.successFalse /\ data.error.kind = "object"
    THEN LET code == StrOr(data.error.code, mapStatusToDefaultCode(status)) IN
           Normalized(status, code,
                      StrOr(data.error.message, DefaultMessage(code)),
                      DetOr(data.details, data.error.details))
    ELSE IF data.successFalse /\ data.error.kind = "string" /\ data.error.text # ""
    THEN LET legacyMessage == data.error.text IN
           Normalized(status, deriveCodeFromMessage(legacyMessage, status),
                      legacyMessage, data.details)
    ELSE IF data.isObject
    THEN LET message ==
               StrOr(data.message,
                     StrOr(IF data.error.kind = "string" THEN data.error.text ELSE "",
                           err.message))
         IN Normalized(status, deriveCodeFromMessage(message, status), message,
                       data.details)
    ELSE Normalized(status, mapStatusToDefaultCode(status), err.message, NoDetails)

\* if (isAppError(err)) { ... }
NormalizeAppError(err) == Normalized(err.status, err.code, err.message, err.details)

\* if (err.isJoi) { ... }: err.details?.[0]?.message || 'Validation error'
NormalizeJoi(err) ==
  Normalized(400, "VALIDATION_ERROR",
             StrOr(IF err.details = NoDetails \/ err.details.value = <<>> THEN ""
                   ELSE err.details.value[1], "Validation error"),
             err.details)

\* if (err.name === 'ValidationError') { ... }
NormalizeMongoose(err) ==
  Normalized(400, "VALIDATION_ERROR",
             StrOr(IF err.errors = NoDetails THEN ""
                   ELSE JoinComma(err.errors.value), "Validation error"),
             err.errors)

\* if (err.name === 'CastError') { ... }
NormalizeCast(err) ==
  Normalized(400, "CAST_ERROR", "Invalid " \o err.path \o ": " \o err.value,
             Details(<<err.path, err.value, err.kind>>))

\* if (err.code === 11000) { ... }
NormalizeDuplicate(err) ==
  Normalized(409, "DUPLICATE_KEY", "Duplicate " \o StrOr(err.keyValue, "field"),
             IF err.keyValue = "" THEN NoDetails ELSE Details(<<err.keyValue>>))

\* Variant: the message of an error thrown locally is never shown.
NormalizeLocalHidden(err) ==
  LET status == IF err.status # 0 THEN err.status
                ELSE IF err.statusCode # 0 THEN err.statusCode ELSE 500
  IN Normalized(status,
                IF err.code # "" /\ err.code \in DOMAIN StatusByCode THEN err.code
                ELSE deriveCodeFromMessage(err.message, status),
                "Internal server error", err.details)

\* Errors thrown locally with status/statusCode
NormalizeLocal(err) ==
  LET status == IF err.status # 0 THEN err.status
                ELSE IF err.statusCode # 0 THEN err.statusCode ELSE 500
  IN Normalized(status,
                IF err.code # "" /\ err.code \in DOMAIN StatusByCode THEN err.code
                ELSE deriveCodeFromMessage(err.message, status),
                StrOr(err.publicMessage, StrOr(err.message, "Internal server error")),
                err.details)

normalizeKnownShapes(err) ==
  IF err.response.present /\ err.response.status # 0 THEN NormalizeUpstream(err)
  ELSE IF err.isApp THEN NormalizeAppError(err)
  ELSE IF err.isJoi THEN NormalizeJoi(err)
  ELSE IF err.name = "ValidationError" THEN NormalizeMongoose(err)
  ELSE IF err.name = "CastError" THEN NormalizeCast(err)
  ELSE IF err.codeNum = 11000 THEN NormalizeDuplicate(err)
  ELSE NormalizeLocal(err)

\* Variant: details are put into the envelope whatever NODE_ENV is.
buildEnvelopeAnyEnv(n, env) ==
  LET safeCode == StrOr(n.code, mapStatusToDefaultCode(StatusOr500(n.status)))
      safeMessage == StrOr(n.message,
                           StrOr(DefaultMessage(safeCode), DefaultMessage("INTERNAL")))
  IN [success |-> FALSE,
      error |-> [code |-> safeCode, message |-> safeMessage, details |-> n.details]]

\* buildEnvelope({ code, message, details, status }), without the timestamp
buildEnvelope(n, env) ==
  LET safeCode == StrOr(n.code, mapStatusToDefaultCode(StatusOr500(n.status)))
      safeMessage == StrOr(n.message,
                           StrOr(DefaultMessage(safeCode), DefaultMessage("INTERNAL")))
  IN [success |-> FALSE,
      error |-> [code |-> safeCode, message |-> safeMessage,
                 details |-> IF n.details # NoDetails /\ env # "production"
                             THEN n.details ELSE NoDetails]]

\* Values of process.env.NODE_ENV.
NodeEnvs == {"production", "development", "test"}

\* A details value.
SomeDetails == Details(<<"field", "name">>)

\* Bodies of upstream error responses: none, the new envelope, the legacy
\* envelope, custom objects and a text body.  (A custom object whose
\* `error` is itself an object makes deriveCodeFromMessage throw and is not
\* among them.)
UpstreamBodies ==
  {EmptyData, UpstreamData(FALSE, FALSE, NoErrField, "", NoDetails)}
  \cup { UpstreamData(TRUE, TRUE, ErrObject(code, message, d[1]), "", d[2]) :
           code \in {"", "NOT_FOUND"}, message \in {"", "Item missing"},
           d \in {<<NoDetails, NoDetails>>, <<SomeDetails, NoDetails>>,
                  <<NoDetails, SomeDetails>>} }
  \cup { UpstreamData(TRUE, TRUE, ErrString("Validation failed"), "", d) :
           d \in {NoDetails, SomeDetails} }
  \cup { UpstreamData(TRUE, FALSE, e, message, d) :
           e \in {NoErrField, ErrString("boom")},
           message \in {"", "Custom failure"}, d \in {NoDetails, SomeDetails} }

UpstreamErrors ==
  { [BlankError EXCEPT !.response = Upstream(status, data),
                       !.message = "Request failed"] :
      status \in {404, 503}, data \in UpstreamBodies }

AppErrors ==
  { AppError("Invalid input", "VALIDATION_ERROR", 400, SomeDetails),
    AppError("Resource not found", "NOT_FOUND", 404, NoDetails),
    AppError("", "INTERNAL", 0, NoDetails),
    AppError("Gateway error", "GATEWAY_ERROR", 502, SomeDetails) }

\* Joi errors: details is the array of { message }.
JoiErrors ==
  { [BlankError EXCEPT !.isJoi = TRUE, !.details = d] :
      d \in {NoDetails, Details(<<>>), Details(<<"name is required">>),
             Details(<<"name is required", "email must be valid">>),
             Details(<<"a is required", "b is required", "c is required">>)} }

MongooseErrors ==
  { [BlankError EXCEPT !.name = "ValidationError", !.message = "Validation failed",
                       !.errors = e] :
      e \in {NoDetails, Details(<<"name is required", "age is too low">>)} }
  \cup { [BlankError EXCEPT !.name = "CastError", !.path = "id", !.value = "abc",
                            !.kind = "ObjectId"] }
  \cup { [BlankError EXCEPT !.name = "MongoServerError", !.codeNum = 11000,
                            !.keyValue = k] : k \in {"", "email"} }

\* Messages of errors thrown locally.
LocalMessages ==
  {"", "Something went wrong", "User not found", "Invalid token supplied",
   "Request timeout exceeded", "Duplicate entry", "Too many attempts",
   "Unauthorized", "Access denied for user"}

LocalErrors ==
  { [BlankError EXCEPT !.message = m, !.status = st[1], !.statusCode = st[2],
                       !.code = c, !.publicMessage = pm, !.details = d] :
      m \in LocalMessages, st \in {<<0, 0>>, <<404, 0>>, <<0, 503>>},
      c \in {"", "NOT_FOUND", "ECONNRESET"}, pm \in {"", "Please try later"},
      d \in {NoDetails, SomeDetails} }

NormErrors ==
  UpstreamErrors \cup AppErrors \cup JoiErrors \cup MongooseErrors \cup LocalErrors

\* State outside the error handler.
outsideNorm == <<callVars, classifyVars, timeVars, healthVars, slotVars,
                 batchVars, verbVars, routeVars, moreVars>>

InitNormalize ==
  /\ config = [retries |-> 0]
  /\ ProxyIdle
  /\ ClassifyIdle
  /\ TimeIdle
  /\ configTimeout = 15000
  /\ HealthIdle
  /\ SlotsIdle
  /\ baseData = EmptyObject
  /\ BatchIdle
  /\ VerbIdle
  /\ RouteIdle
  /\ MoreIdle
  /\ nodeEnv \in NodeEnvs
  /\ errIn \in NormErrors
  /\ resStatus = 0
  /\ resBody = NoResult

\* errorNormalizer(err, req, res, next)
ErrorNormalizer ==
  /\ resStatus = 0
  /\ LET n == normalizeKnownShapes(errIn) IN
       /\ resStatus' = StatusOr500(n.status)
       /\ resBody' = buildEnvelope(n, nodeEnv)
  /\ UNCHANGED <<nodeEnv, errIn, outsideNorm>>

NextNormalize == ErrorNormalizer

SpecNormalize == InitNormalize /\ [][NextNormalize]_vars

\* ------------------------------------------------------------------------
\* GET /api/example (SpecList)
\*
\* The handler awaits aggregateServiceData over two legs, serviceA under
\* 'primaryItems' and serviceB under 'metadata', and answers in the same
\* chain of microtasks in which the aggregator returns.
\* ------------------------------------------------------------------------

\* The `key` of the two legs, in the order of the argument.
ListKeys == <<"primaryItems", "metadata">>

\* aggregatedData.primaryItems?.items || []  (the response data stands for
\* the items it carries)
ItemsOf(v) == IF v.kind = "data" THEN <<v.value>> ELSE <<>>

\* aggregatedData.metadata || {}  ({} is the empty tuple)
MetadataOf(v) == IF v.kind = "data" THEN <<v.value>> ELSE <<>>

\* res.success({ items, metadata, aggregatedFrom }, ...)
ListReply(aggregatedData) ==
  [success |-> TRUE, status |-> 200,
   data |-> [items |-> ItemsOf(aggregatedData["primaryItems"]),
             metadata |-> MetadataOf(aggregatedData["metadata"])]]

\* throw error: asyncHandler hands the error to the error middleware.
Forwarded(error) == [success |-> FALSE, error |-> error]

\* The handler goes on past the await once the aggregator has returned.
ListAnswer ==
  reply' = IF bPc = "waiting" /\ bPc' = "resolved"
           THEN ListReply((Cell(returned))') ELSE reply

\* State outside the slots, the batch and the route.
outsideList == <<callVars, classifyVars, timeVars, healthVars, verbVars, normVars,
                 moreVars>>

InitList ==
  /\ config = [retries |-> 0]
  /\ ProxyIdle
  /\ ClassifyIdle
  /\ TimeIdle
  /\ configTimeout = 15000
  /\ HealthIdle
  /\ SlotsIdle
  /\ baseData = EmptyObject
  /\ BatchIdle
  /\ RestIdle

\* The handler runs up to await aggregateServiceData([...]).
ListCall(cfg) ==
  /\ route = "none"
  /\ AggregateCallStep(ListKeys, cfg)
  /\ route' = "list"
  /\ UNCHANGED <<reply, outsideList>>

ListLegOk(c, response) ==
  /\ route = "list"
  /\ AggLegOkStep(c, response)
  /\ ListAnswer
  /\ UNCHANGED <<route, outsideList>>

ListLegFail(c, error) ==
  /\ route = "list"
  /\ AggLegFailStep(c, error)
  /\ ListAnswer
  /\ UNCHANGED <<route, outsideList>>

ListLegWake(c) ==
  /\ route = "list"
  /\ AggLegWakeStep(c)
  /\ ListAnswer
  /\ UNCHANGED <<route, outsideList>>

NextList ==
  \/ \E cfg \in [1..2 -> 0..MaxLegRetries] : ListCall(cfg)
  \/ \E c \in Slots, response \in SuccessResponses : ListLegOk(c, response)
  \/ \E c \in Slots, error \in SlotFailures : ListLegFail(c, error)
  \/ \E c \in Slots : ListLegWake(c)
  \/ BatchTick

SpecList == InitList /\ [][NextList]_vars

\* ------------------------------------------------------------------------
\* POST /api/example (SpecCreate)
\*
\* The create call on serviceA is the single call of the retry loop; the
\* two secondary posts, serviceB's index in slot 1 and serviceC's analytics
\* in slot 2, run on their own proxies.  The handler answers in the chain
\* of microtasks in which the create call settles.
\* ------------------------------------------------------------------------

MaxCreateRetries == 1

\* The slots of the two secondary posts.
Secondaries == {1, 2}

\* A response body that parses to null: it has no `id` to read.
NullBody == "null"

CreateResponses == SuccessResponses \cup {HttpResponse(200, NullBody)}

\* createResponse.data and createdItem.id can be read without a throw.
HasId(response) == response # NoResult /\ response.data # NullBody

\* createdItem.id on null
TypeError == [name |-> "TypeError", message |-> "Cannot read properties of null"]

\* res.status(201).success(createdItem, ...)
Created(response) == [success |-> TRUE, status |-> 201, data |-> response.data]

\* Variant: the handler goes on to the secondary posts however the create
\* call ended.
PastAwaitAnyEnd(p) == p \in {"returned", "thrown"}

\* The statements after `await serviceA.post(...)` run when it returned.
PastAwait(p) == p = "returned"

\* The handler's continuation once the create call has taken a step.
CreateContinue ==
  IF PastAwait(pc') /\ HasId(result')
  THEN /\ StartStep(Secondaries, [c \in Slots |-> NoOverride], proxyRetries)
       /\ reply' = Created(result')
  ELSE IF PastAwait(pc')
  THEN /\ reply' = Forwarded(TypeError)
       /\ UNCHANGED slotVars
  ELSE IF pc' = "thrown"
  THEN /\ reply' = Forwarded(thrown')
       /\ UNCHANGED slotVars
  ELSE UNCHANGED <<reply, slotVars>>

\* State outside the create call, the slots and the route.
outsideCreate == <<classifyVars, timeVars, healthVars, batchVars, verbVars, normVars,
                   moreVars>>

InitCreate ==
  /\ config \in [retries : 0..MaxCreateRetries]
  /\ ProxyIdle
  /\ ClassifyIdle
  /\ TimeIdle
  /\ configTimeout = 15000
  /\ HealthIdle
  /\ proxyRetries \in [Slots -> 0..MaxCreateRetries]
  /\ callOpt = [c \in Slots |-> NoOverride]
  /\ callPc = [c \in Slots |-> "idle"]
  /\ callRetries = [c \in Slots |-> 0]
  /\ callAttempt = [c \in Slots |-> 0]
  /\ callLastError = [c \in Slots |-> NoError]
  /\ callSent = [c \in Slots |-> 0]
  /\ callLog = [c \in Slots |-> <<>>]
  /\ callSlept = [c \in Slots |-> <<>>]
  /\ callTimer = [c \in Slots |-> 0]
  /\ callResult = [c \in Slots |-> NoResult]
  /\ callThrown = [c \in Slots |-> NoError]
  /\ baseData = EmptyObject
  /\ BatchIdle
  /\ RestIdle

\* The handler runs up to await serviceProxies.serviceA.post(...).
CreateCall ==
  /\ route = "none"
  /\ CallStep("POST", NoOverride)
  /\ route' = "create"
  /\ CreateContinue
  /\ UNCHANGED outsideCreate

CreateRespondOk(response) ==
  /\ route = "create"
  /\ RespondOkStep(response)
  /\ CreateContinue
  /\ UNCHANGED <<route, outsideCreate>>

CreateRespondFail(error) ==
  /\ route = "create"
  /\ RespondFailStep(error)
  /\ CreateContinue
  /\ UNCHANGED <<route, outsideCreate>>

CreateWake ==
  /\ route = "create"
  /\ WakeStep
  /\ CreateContinue
  /\ UNCHANGED <<route, outsideCreate>>

NextCreate ==
  \/ CreateCall
  \/ \E response \in CreateResponses : CreateRespondOk(response)
  \/ \E error \in SlotFailures : CreateRespondFail(error)
  \/ Tick
  \/ CreateWake
  \/ \E c \in Secondaries, response \in SuccessResponses : SlotOk(c, response)
  \/ \E c \in Secondaries, error \in SlotFailures : SlotFail(c, error)
  \/ SlotTick
  \/ \E c \in Secondaries : SlotWake(c)

SpecCreate == InitCreate /\ [][NextCreate]_vars

\* ------------------------------------------------------------------------
\* Either batch function, called once (SpecBatch)
\*
\* `route` records which of the two was called.
\* ------------------------------------------------------------------------

InitBatch == InitEnrich

BatchAggregateCall(keys, cfg) ==
  /\ route = "none"
  /\ AggregateCallStep(keys, cfg)
  /\ route' = "aggregate"
  /\ UNCHANGED <<reply, outsideList>>

BatchEnrichCall(keys, cfg) ==
  /\ route = "none"
  /\ EnrichCallStep(keys, cfg)
  /\ route' = "enrich"
  /\ UNCHANGED <<reply, outsideList>>

BatchAggLegOk(c, response) ==
  /\ route = "aggregate"
  /\ AggLegOkStep(c, response)
  /\ UNCHANGED outsideBatch

BatchAggLegFail(c, error) ==
  /\ route = "aggregate"
  /\ AggLegFailStep(c, error)
  /\ UNCHANGED outsideBatch

BatchAggLegWake(c) ==
  /\ route = "aggregate"
  /\ AggLegWakeStep(c)
  /\ UNCHANGED outsideBatch

BatchEnrichLegOk(c, response) ==
  /\ route = "enrich"
  /\ EnrichLegOkStep(c, response)
  /\ UNCHANGED outsideBatch

BatchEnrichLegFail(c, error) ==
  /\ route = "enrich"
  /\ EnrichLegFailStep(c, error)
  /\ UNCHANGED outsideBatch

BatchEnrichLegWake(c) ==
  /\ route = "enrich"
  /\ EnrichLegWakeStep(c)
  /\ UNCHANGED outsideBatch

NextBatch ==
  \/ \E n \in 1..MaxLegs :
       \E keys \in [1..n -> BatchKeys], cfg \in [1..n -> 0..MaxLegRetries] :
         BatchAggregateCall(keys, cfg)
  \/ \E n \in 1..MaxLegs :
       \E keys \in [1..n -> BatchKeys], cfg \in [1..n -> 0..MaxLegRetries] :
         BatchEnrichCall(keys, cfg)
  \/ \E c \in Slots, response \in SuccessResponses : BatchAggLegOk(c, response)
  \/ \E c \in Slots, error \in SlotFailures : BatchAggLegFail(c, error)
  \/ \E c \in Slots : BatchAggLegWake(c)
  \/ \E c \in Slots, response \in SuccessResponses : BatchEnrichLegOk(c, response)
  \/ \E c \in Slots, error \in SlotFailures : BatchEnrichLegFail(c, error)
  \/ \E c \in Slots : BatchEnrichLegWake(c)
  \/ BatchTick

SpecBatch == InitBatch /\ [][NextBatch]_vars

\* ------------------------------------------------------------------------
\* The gateway's health endpoint (SpecGateway)
\*
\* Object.entries(proxies).map(async ...) calls every proxy's healthCheck()
\* before checkServicesHealth awaits; a proxy's healthCheck() resolves with
\* its own result and does not reject.  When the last of them has settled,
\* the rest of checkServicesHealth and of the middleware run as one chain
\* of microtasks.  The template configures three services; a deployment
\* may strike some or all of them from config.SERVICES.
\* ------------------------------------------------------------------------

\* What a proxy's healthCheck() may resolve with.
ProbeResults ==
  {Healthy(0)} \cup {Unhealthy(0, Intercepted[error]) : error \in SlotFailures}

\* The entry stored for a service: status and, when truthy, the error.
StatusEntry(probed) ==
  [status |-> probed.status,
   hasError |-> probed.hasError /\ probed.error # "",
   error |-> IF probed.hasError THEN probed.error ELSE ""]

\* Object.values(services)
StatusValues(services, names) == {s \in names : services[s] # NoResult}

\* determineOverallStatus(services), over the configured names
determineOverallStatus(services, names) ==
  LET statuses == StatusValues(services, names)
      healthyCount == Cardinality({s \in statuses : services[s].status = "healthy"})
      totalCount == Cardinality(statuses)
  IN IF totalCount = 0 THEN "healthy"
     ELSE IF healthyCount = totalCount THEN "healthy"
     ELSE IF healthyCount = 0 THEN "unhealthy"
     ELSE "degraded"

\* Variant: anything short of healthy is answered 503.
HttpStatusOfStrict(overallStatus) ==
  IF overallStatus = "healthy" THEN 200 ELSE 503

\* overallStatus === 'healthy' ? 200 : overallStatus === 'degraded' ? 200 : 503
HttpStatusOf(overallStatus) ==
  IF overallStatus = "healthy" THEN 200
  ELSE IF overallStatus = "degraded" THEN 200
  ELSE 503

\* res.status(httpStatus).json({ success, data: healthResult, ... })
HealthAnswer(services, names) ==
  LET overallStatus == determineOverallStatus(services, names) IN
    [httpStatus |-> HttpStatusOf(overallStatus),
     success |-> overallStatus # "unhealthy",
     data |-> [status |-> overallStatus, services |-> services]]

\* State outside the health endpoint.
outsideGateway == <<callVars, classifyVars, timeVars, healthVars, slotVars,
                    batchVars, verbVars, normVars, routeVars, dbVars>>

InitGateway ==
  /\ config = [retries |-> 0]
  /\ ProxyIdle
  /\ ClassifyIdle
  /\ TimeIdle
  /\ configTimeout = 15000
  /\ HealthIdle
  /\ SlotsIdle
  /\ baseData = EmptyObject
  /\ BatchIdle
  /\ VerbIdle
  /\ NormIdle
  /\ RouteIdle
  /\ DbIdle
  /\ gwServices \in SUBSET ServiceNames
  /\ gwPc = "idle"
  /\ gwPending = {}
  /\ serviceStatuses = [s \in ServiceNames |-> NoResult]
  /\ gwReply = NoResult

\* The rest of the middleware once Promise.allSettled is fulfilled.
GatewayContinue ==
  IF gwPending' = {}
  THEN /\ gwPc' = "answered"
       /\ gwReply' = HealthAnswer(serviceStatuses', gwServices)
  ELSE /\ gwPc' = "probing"
       /\ gwReply' = gwReply

\* GET /health: the middleware runs up to await checkServicesHealth(), and
\* beyond when there is nothing to wait for.
GatewayHealthCheck ==
  /\ gwPc = "idle"
  /\ gwPending' = gwServices
  /\ serviceStatuses' = [s \in ServiceNames |-> NoResult]
  /\ GatewayContinue
  /\ UNCHANGED <<gwServices, outsideGateway>>

\* The healthCheck() of service s resolves and its entry is stored.
ProbeSettles(s, probed) ==
  /\ gwPc = "probing"
  /\ s \in gwPending
  /\ gwPending' = gwPending \ {s}
  /\ serviceStatuses' = [serviceStatuses EXCEPT ![s] = StatusEntry(probed)]
  /\ GatewayContinue
  /\ UNCHANGED <<gwServices, outsideGateway>>

NextGateway ==
  \/ GatewayHealthCheck
  \/ \E s \in ServiceNames, probed \in ProbeResults : ProbeSettles(s, probed)

SpecGateway == InitGateway /\ [][NextGateway]_vars

\* ------------------------------------------------------------------------
\* Database.connect and startServer of the MongoDB service template
\* (SpecStart, and SpecStartFair for what must eventually happen)
\*
\* startServer awaits connectToDatabase(), which awaits database.connect().
\* When mongoose.connect settles, the rest of connect(), the settling of
\* its promise and, for the caller's own call, the rest of startServer run
\* as one chain of microtasks.  A connect() started by the retry timer has
\* no one awaiting it.  `reachable` is the environment: whether
\* mongoose.connect would succeed if it settled now.
\* ------------------------------------------------------------------------

\* setTimeout(() => this.connect(), 5000)
ReconnectDelayMs == 5000

\* connect() calls are counted up to this number; further calls are made
\* all the same.
MaxConnectCalls == 3

\* Values of NODE_ENV.
DbEnvs == {"production", "development", "test"}

\* Variant: only 'development' retries.
RetriesInDevelopmentOnly(env) == env = "development"

\* if (NODE_ENV !== 'production')
RetriesIn(env) == env # "production"

CountCall(n) == IF n < MaxConnectCalls THEN n + 1 ELSE n

\* State outside the database manager and the server.
outsideStart == <<callVars, classifyVars, timeVars, healthVars, slotVars,
                  batchVars, verbVars, normVars, routeVars, gwVars>>

InitStart ==
  /\ config = [retries |-> 0]
  /\ ProxyIdle
  /\ ClassifyIdle
  /\ TimeIdle
  /\ configTimeout = 15000
  /\ HealthIdle
  /\ SlotsIdle
  /\ baseData = EmptyObject
  /\ BatchIdle
  /\ VerbIdle
  /\ NormIdle
  /\ RouteIdle
  /\ GwIdle
  /\ dbEnv \in DbEnvs
  /\ reachable \in BOOLEAN
  /\ isConnected = FALSE
  /\ dbPc = "idle"
  /\ retryTimer = 0
  /\ connectCalls = 0
  /\ listeners = FALSE
  /\ firstCall = "none"
  /\ srvPc = "init"

\* connect() up to await mongoose.connect(...), or its early return.
ConnectEnter ==
  IF isConnected
  THEN /\ dbPc' = "done"
       /\ UNCHANGED connectCalls
  ELSE /\ dbPc' = "connecting"
       /\ connectCalls' = CountCall(connectCalls)

\* startServer() up to await connectToDatabase().
StartServer ==
  /\ srvPc = "init"
  /\ srvPc' = "connecting"
  /\ firstCall' = "pending"
  /\ ConnectEnter
  /\ UNCHANGED <<dbEnv, reachable, isConnected, retryTimer, listeners, outsideStart>>

\* The caller's connect() settles with `outcome`: startServer goes on to
\* server.listen, or to process.exit(1) in its catch block.
CallerContinue(outcome) ==
  IF firstCall = "pending"
  THEN /\ firstCall' = outcome
       /\ srvPc' = IF outcome = "resolved" THEN "listening" ELSE "exited"
  ELSE UNCHANGED <<firstCall, srvPc>>

\* mongoose.connect resolves.
ConnectOk ==
  /\ srvPc # "exited"
  /\ dbPc = "connecting"
  /\ reachable
  /\ isConnected' = TRUE
  /\ listeners' = TRUE
  /\ dbPc' = "done"
  /\ CallerContinue("resolved")
  /\ UNCHANGED <<dbEnv, reachable, retryTimer, connectCalls, outsideStart>>

\* mongoose.connect rejects: the catch block sets the timer or rethrows.
ConnectFail ==
  /\ srvPc # "exited"
  /\ dbPc = "connecting"
  /\ ~reachable
  /\ IF RetriesIn(dbEnv)
     THEN /\ retryTimer' = ReconnectDelayMs
          /\ dbPc' = "retryWait"
          /\ CallerContinue("resolved")
     ELSE /\ retryTimer' = retryTimer
          /\ dbPc' = "failed"
          /\ CallerContinue("rejected")
  /\ UNCHANGED <<dbEnv, reachable, isConnected, connectCalls, listeners, outsideStart>>

\* Time passes while the retry timer runs.
DbTick ==
  /\ srvPc # "exited"
  /\ dbPc = "retryWait"
  /\ retryTimer > 0
  /\ retryTimer' = IF retryTimer > TickMs THEN retryTimer - TickMs ELSE 0
  /\ UNCHANGED <<dbEnv, reachable, isConnected, dbPc, connectCalls, listeners,
                 firstCall, srvPc, outsideStart>>

\* The timer fires: () => this.connect()
RetryFires ==
  /\ srvPc # "exited"
  /\ dbPc = "retryWait"
  /\ retryTimer = 0
  /\ ConnectEnter
  /\ UNCHANGED <<dbEnv, reachable, isConnected, retryTimer, listeners, firstCall,
                 srvPc, outsideStart>>

\* MongoDB becomes reachable or unreachable.
ReachabilityChanges ==
  /\ srvPc # "exited"
  /\ reachable' = ~reachable
  /\ UNCHANGED <<dbEnv, isConnected, dbPc, retryTimer, connectCalls, listeners,
                 firstCall, srvPc, outsideStart>>

\* mongoose.connection emits 'disconnected' (or 'error').
Disconnected ==
  /\ srvPc # "exited"
  /\ listeners
  /\ ~reachable
  /\ isConnected
  /\ isConnected' = FALSE
  /\ UNCHANGED <<dbEnv, reachable, dbPc, retryTimer, connectCalls, listeners,
                 firstCall, srvPc, outsideStart>>

\* mongoose.connection emits 'reconnected'.
Reconnected ==
  /\ srvPc # "exited"
  /\ listeners
  /\ reachable
  /\ ~isConnected
  /\ isConnected' = TRUE
  /\ UNCHANGED <<dbEnv, reachable, dbPc, retryTimer, connectCalls, listeners,
                 firstCall, srvPc, outsideStart>>

NextStart ==
  \/ StartServer
  \/ ConnectOk
  \/ ConnectFail
  \/ DbTick
  \/ RetryFires
  \/ ReachabilityChanges
  \/ Disconnected
  \/ Reconnected

SpecStart == InitStart /\ [][NextStart]_vars

\* The module calls startServer() when loaded, mongoose.connect settles
\* within its server selection timeout, and timers run down and fire.
SpecStartFair ==
  /\ SpecStart
  /\ WF_vars(StartServer)
  /\ WF_vars(ConnectOk)
  /\ WF_vars(ConnectFail)
  /\ WF_vars(DbTick)
  /\ WF_vars(RetryFires)

\* ------------------------------------------------------------------------
\* Properties of the retry loop (checked under Spec)
\* ------------------------------------------------------------------------

\* The retry budget R the caller asked for: options.retries when given,
\* else the configured one.
Budget ==
  IF options.retries.defined THEN options.retries.value ELSE config.retries

\* Status of the ProxyError the i-th physical attempt failed with (0 when
\* it succeeded).
FailStatus(i) == IF log[i].ok THEN 0 ELSE log[i].rejected.status

\* The i-th attempt failed and its error is one the policy retries.
FailedRetryable(i) ==
  /\ ~log[i].ok
  /\ FailStatus(i) >= 500
  /\ FailStatus(i) \notin {501, 505}

\* C1: a logical call never issues more than R+1 physical requests, and a
\* call that has ended after only retryable failures issued exactly R+1.
C1_AttemptsWithinBudget ==
  /\ requestCount <= Budget + 1
  /\ (pc \in {"returned", "thrown"} /\ \A i \in 1..Len(log) : FailedRetryable(i))
       => requestCount = Budget + 1

\* A call with an explicit budget of 1 used both attempts and threw.
C1_Witness ==
  /\ pc = "thrown"
  /\ options.retries = Override(1)
  /\ config.retries > 1
  /\ requestCount = 2
  /\ \A i \in 1..Len(log) : FailedRetryable(i)

\* C2: when the first k attempts fail with a retryable server error and
\* attempt k+1 succeeds, exactly k+1 attempts were issued, the call returned
\* the data and status of the successful response, and nothing was issued
\* after the success.
C2_SuccessAfterRetries ==
  \A k \in 0..Budget :
    ( /\ Len(log) >= k + 1
      /\ log[k + 1].ok
      /\ \A i \in 1..k : /\ FailedRetryable(i)
                         /\ log[i].error.response.present )
    => /\ pc = "returned"
       /\ Len(log) = k + 1
       /\ requestCount = k + 1
       /\ inflight = {}
       /\ result = [data |-> log[k + 1].response.data,
                    status |-> log[k + 1].response.status]
       /\ thrown = NoError

\* Two server errors, then a 201 whose body is returned.
C2_Witness ==
  /\ pc = "returned"
  /\ Len(log) = 3
  /\ log[1].error = HttpFailure(500)
  /\ log[2].error = HttpFailure(500)
  /\ result = [data |-> "itemB", status |-> 201]

\* C3: an attempt that fails with a client error (400..499, 429 included)
\* is the last attempt of its call: the call throws that error at once,
\* without a sleep and without a further request, whatever the budget and
\* the attempt number; when it is the first attempt the call has issued
\* exactly one request.
C3_ClientErrorNotRetried ==
  \A i \in 1..Len(log) :
    (~log[i].ok /\ FailStatus(i) \in 400..499)
    => /\ i = Len(log)
       /\ requestCount = i
       /\ pc = "thrown"
       /\ thrown.status = FailStatus(i)
       /\ Len(slept) = i - 1
       /\ inflight = {}

\* A 429 on the first attempt of a call with budget left.
C3_Witness ==
  /\ pc = "thrown"
  /\ Budget >= 2
  /\ requestCount = 1
  /\ Len(log) = 1
  /\ log[1].error = HttpFailure(429)

\* C4: a failure with status 501 or 505 ends the call: it throws after that
\* attempt, no sleep is started and no further request is issued, also
\* when the budget is not exhausted.
C4_NotImplementedNotRetried ==
  \A i \in 1..Len(log) :
    (~log[i].ok /\ FailStatus(i) \in {501, 505})
    => /\ i = Len(log)
       /\ requestCount = i
       /\ pc = "thrown"
       /\ thrown.status \in {501, 505}
       /\ Len(slept) = i - 1
       /\ timer = 0

\* A 505 on the second attempt, with budget left.
C4_Witness ==
  /\ pc = "thrown"
  /\ Len(log) = 2
  /\ Budget >= 3
  /\ log[2].error = HttpFailure(505)

\* C5 as stated: every failure where a response was received, whose
\* status is outside [400,500) and is not 501 or 505, is retried whenever
\* the number of attempts made so far is <= maxRetries.
C5_AnyNon4xxResponseRetried ==
  \A i \in 1..Len(log) :
    ( /\ ~log[i].ok
      /\ log[i].rejected.response.present
      /\ FailStatus(i) \notin 400..499
      /\ FailStatus(i) \notin {501, 505}
      /\ i <= Budget )
    => \/ requestCount > i
       \/ pc = "sleeping" /\ Len(slept) = i

\* C5 (amended): every failure where a response was received, whose status
\* is 500 or above and is not 501 or 505, is retried whenever the number
\* of attempts made so far is <= maxRetries: a sleep is started and the
\* next attempt follows it.
C5_ServerErrorRetried ==
  \A i \in 1..Len(log) :
    ( /\ ~log[i].ok
      /\ log[i].rejected.response.present
      /\ FailStatus(i) >= 500
      /\ FailStatus(i) \notin {501, 505}
      /\ i <= Budget )
    => \/ requestCount > i
       \/ pc = "sleeping" /\ Len(slept) = i

\* The last attempt the budget allows a retry for failed with a 500 and the
\* retry has been issued.
C5_Witness ==
  /\ Budget >= 2
  /\ Len(log) = Budget
  /\ log[Len(log)].error = HttpFailure(500)
  /\ requestCount = Budget + 1
  /\ pc = "awaiting"

\* C6: the delay slept after the n-th failed attempt is 1000, 2000, 4000 ms
\* for n = 1, 2, 3 and 5000 ms for every later n; no delay exceeds 5000 and
\* the delays never decrease along a call.
C6_BackoffSchedule ==
  /\ \A n \in 1..Len(slept) :
       /\ slept[n] = (CASE n = 1 -> 1000 [] n = 2 -> 2000 [] n = 3 -> 4000
                        [] OTHER -> 5000)
       /\ slept[n] <= 5000
       /\ n > 1 => slept[n - 1] <= slept[n]
  /\ pc = "sleeping" => /\ Len(slept) = Len(log)
                        /\ timer <= slept[Len(slept)]

\* The capped delay has been slept: four failures, four sleeps.
C6_Witness ==
  /\ Len(slept) = 4
  /\ slept[4] = 5000
  /\ pc = "awaiting"

\* C7: a GET with maxRetries = 3 whose every attempt is refused issues 4
\* attempts with sleeps of 1000, 2000 and 4000 ms between them, starts no
\* sleep after the 4th and throws a network error with status 503; it does
\* not throw before the 4th attempt.
C7_ConnectionRefusedScenario ==
  ( /\ method = "GET"
    /\ Budget = 3
    /\ \A i \in 1..Len(log) : log[i].error = ConnectionRefused )
  => /\ Len(log) < 4 => /\ pc \in {"awaiting", "sleeping"}
                        /\ thrown = NoError
     /\ Len(log) = 4 => /\ pc = "thrown"
                        /\ requestCount = 4
                        /\ slept = <<1000, 2000, 4000>>
                        /\ timer = 0
                        /\ thrown.isNetworkError
                        /\ thrown.status = 503
     /\ Len(log) <= 4

\* The scenario has run to its throw.
C7_Witness ==
  /\ method = "GET"
  /\ config.retries = 3
  /\ ~options.retries.defined
  /\ Len(log) = 4
  /\ \A i \in 1..4 : log[i].error = ConnectionRefused
  /\ pc = "thrown"

\* C8: at most one attempt of the call is in flight, and a further attempt
\* is issued only when none is in flight, the previous one has failed and
\* the sleep started for it has run down completely.
C8_AttemptsSequential ==
  /\ [](Cardinality(inflight) <= 1)
  /\ [][requestCount' > requestCount =>
          /\ requestCount' = requestCount + 1
          /\ inflight = {}
          /\ \/ requestCount = 0 /\ pc = "idle"
             \/ /\ pc = "sleeping"
                /\ timer = 0
                /\ Len(log) = requestCount
                /\ ~log[requestCount].ok
                /\ Len(slept) = requestCount]_vars

\* A second attempt is in flight after the first failed and its sleep ran.
C8_Witness ==
  /\ pc = "awaiting"
  /\ requestCount = 3
  /\ inflight = {3}
  /\ slept = <<1000, 2000>>

\* C10: a call ends either by returning the response of its last attempt,
\* which succeeded, or by throwing the ProxyError of its last attempt as
\* the interceptor produced it; never both, never a value without a
\* successful attempt, never the error of an earlier attempt.
C10_ReturnsOrThrowsLast ==
  /\ ~(result # NoResult /\ thrown # NoError)
  /\ pc = "returned" <=> result # NoResult
  /\ pc = "thrown" <=> thrown # NoError
  /\ pc = "returned" =>
       /\ Len(log) = requestCount
       /\ log[Len(log)].ok
       /\ result = [data |-> log[Len(log)].response.data,
                    status |-> log[Len(log)].response.status]
  /\ pc = "thrown" =>
       /\ Len(log) = requestCount
       /\ Len(log) >= 1
       /\ ~log[Len(log)].ok
       /\ thrown = log[Len(log)].rejected
       /\ thrown = lastError

\* A call threw after two attempts that failed in different ways.
C10_Witness ==
  /\ pc = "thrown"
  /\ Len(log) = 2
  /\ log[1].error = ConnectionRefused
  /\ log[2].error = HttpFailure(404)
  /\ thrown.status = 404

\* ------------------------------------------------------------------------
\* Properties of the classifier (checked under SpecClassify)
\* ------------------------------------------------------------------------

\* C9: transformError applies its rules in a fixed precedence and exactly
\* one of them: refused / host-not-found code -> network, 503; else timeout
\* code or "timeout" in the message -> timeout, 504, also when a response
\* is present; else a response -> that response's status; else 502.
C9_ClassifierPrecedence ==
  classified # NoError =>
    LET isNetwork == rawIn.code \in {"ECONNREFUSED", "ENOTFOUND"}
        isTimeout == \/ rawIn.code = "ETIMEDOUT"
                     \/ \E i \in 1..Len(rawIn.message) :
                          /\ i + 6 <= Len(rawIn.message)
                          /\ SubSeq(rawIn.message, i, i + 6) = "timeout"
        hasResponse == rawIn.response.present
    IN /\ isNetwork =>
            /\ classified.isNetworkError /\ ~classified.isTimeout
            /\ classified.status = 503
            /\ ~classified.response.present
       /\ (~isNetwork /\ isTimeout) =>
            /\ classified.isTimeout /\ ~classified.isNetworkError
            /\ classified.status = 504
            /\ ~classified.response.present
       /\ (~isNetwork /\ ~isTimeout /\ hasResponse) =>
            /\ ~classified.isNetworkError /\ ~classified.isTimeout
            /\ classified.status = rawIn.response.status
            /\ classified.response = rawIn.response
       /\ (~isNetwork /\ ~isTimeout /\ ~hasResponse) =>
            /\ ~classified.isNetworkError /\ ~classified.isTimeout
            /\ classified.status = 502
            /\ ~classified.response.present

\* A failure with a timeout message and a 500 response was classified as a
\* timeout.
C9_Witness ==
  /\ classified # NoError
  /\ rawIn.code = "ERR_BAD_RESPONSE"
  /\ rawIn.message = "Request timeout"
  /\ rawIn.response.present
  /\ rawIn.response.status = 500
  /\ classified.isTimeout
  /\ classified.status = 504

\* ------------------------------------------------------------------------
\* Properties of the response time (checked under SpecTimed)
\* ------------------------------------------------------------------------

RECURSIVE SumSeq(_)
SumSeq(q) == IF q = <<>> THEN 0 ELSE q[1] + SumSeq(Tail(q))

\* C19: the responseTime of a successful call is the time since the call
\* began: it is at least the backoff delays slept plus the time the earlier
\* failed attempts were in flight, and it is more than the duration of the
\* successful attempt alone whenever a retry preceded it.
C19_ResponseTimeCumulative ==
  pc = "returned" =>
    /\ responseTime = now - startTime
    /\ responseTime >= SumSeq(slept) + failedMs + (now - attemptStart)
    /\ Len(slept) >= 1 => responseTime > now - attemptStart

\* A call that began after the clock had advanced succeeded on its second
\* attempt; both attempts and the sleep took time.
C19_Witness ==
  /\ pc = "returned"
  /\ startTime > 0
  /\ slept = <<1000>>
  /\ failedMs > 0
  /\ now - attemptStart > 0
  /\ responseTime = 3000

\* ------------------------------------------------------------------------
\* Properties of healthCheck (checked under SpecHealth)
\* ------------------------------------------------------------------------

\* C17: healthCheck never throws: whatever the transport answers, it
\* resolves, with status healthy and no error when the probe succeeded,
\* with status unhealthy and the message of the caught error when it
\* failed, and with a response time (the time since it was called).
C17_HealthCheckResolves ==
  /\ hPc \in {"idle", "probing", "resolved"}
  /\ hOutcome # NoResult =>
       /\ hPc = "resolved"
       /\ hResult # NoResult
       /\ hResult.responseTime = now - hStart
       /\ hResult.responseTime >= 0
       /\ hOutcome.ok =>
            /\ hResult.status = "healthy"
            /\ ~hResult.hasError
       /\ ~hOutcome.ok =>
            /\ hResult.status = "unhealthy"
            /\ hResult.hasError
            /\ hResult.error = hOutcome.rejected.message
  /\ hOutcome = NoResult => hResult = NoResult

\* A refused probe was reported as unhealthy after some time.
C17_Witness ==
  /\ hPc = "resolved"
  /\ hOutcome.error = ConnectionRefused
  /\ hResult.status = "unhealthy"
  /\ hResult.error = "Service serviceA is unavailable"
  /\ hResult.responseTime > 0

\* C18: healthCheck issues exactly one GET to /health with a timeout of
\* 5000 ms, whatever retries and timeout are configured; a failed probe is
\* not followed by a second request or by a backoff sleep.
C18_HealthSingleProbe ==
  /\ hPc = "idle" => hProbes = <<>>
  /\ hPc # "idle" =>
       /\ hProbes = <<[method |-> "GET", url |-> "/health", timeout |-> 5000]>>
       /\ requestCount = 0
       /\ slept = <<>>
       /\ timer = 0

\* A failed probe on a proxy configured with retries and a 15 s timeout.
C18_Witness ==
  /\ hPc = "resolved"
  /\ ~hOutcome.ok
  /\ config.retries >= 3
  /\ configTimeout = 15000
  /\ Len(hProbes) = 1

\* ------------------------------------------------------------------------
\* Properties of calls side by side (checked under SpecCalls)
\* ------------------------------------------------------------------------

\* Number of failures among the transport outcomes of a call.
RECURSIVE FailCount(_)
FailCount(q) == IF q = <<>> THEN 0
                ELSE (IF q[1].ok THEN 0 ELSE 1) + FailCount(Tail(q))

\* The retry budget call c asked for.
SlotBudget(c) ==
  IF callOpt[c].defined THEN callOpt[c].value ELSE proxyRetries[c]

\* What call c's own transport outcomes and options determine.
OwnOutcomesDetermine(c) ==
  LET own == callLog[c]
      n == Len(own)
      fails == FailCount(own)
      retried == IF callPc[c] = "thrown" THEN fails - 1 ELSE fails
  IN
    /\ callAttempt[c] = fails
    /\ callSent[c] = n + (IF callPc[c] = "awaiting" THEN 1 ELSE 0)
    /\ callSent[c] <= SlotBudget(c) + 1
    /\ callSlept[c] = [i \in 1..retried |-> Min(1000 * Pow2(i - 1), 5000)]
    /\ callPc[c] = "returned" =>
         /\ own[n].ok
         /\ callResult[c] = [data |-> own[n].response.data,
                             status |-> own[n].response.status]
    /\ callPc[c] = "thrown" =>
         /\ ~own[n].ok
         /\ callThrown[c] = own[n].rejected
         /\ own[n].rejected.status \in 1..499 \/ fails > SlotBudget(c)
    /\ callPc[c] \in {"awaiting", "sleeping"} /\ n > 0 =>
         /\ ~own[n].ok
         /\ own[n].rejected.status \notin 1..499
         /\ fails <= SlotBudget(c)

\* C20: calls on one proxy that overlap in time share no state: under every
\* interleaving the attempt count, the backoff delays and the result or
\* error of each call are those its own transport outcomes and options
\* determine.
C20_CallsIndependent ==
  \A c \in Slots : callPc[c] # "idle" => OwnOutcomesDetermine(c)

\* Call 1 is asleep after its second failure while call 2, entered with
\* another budget, waits for its second attempt.
C20_Witness ==
  /\ callPc[1] = "sleeping" /\ callAttempt[1] = 2
  /\ callPc[2] = "awaiting" /\ callAttempt[2] = 1
  /\ callOpt[1] # callOpt[2]
  /\ C20_CallsIndependent

\* ------------------------------------------------------------------------
\* Properties of aggregateServiceData (checked under SpecAggregate)
\* ------------------------------------------------------------------------

\* Legs of the batch, the legs naming a key, and the value a leg produced.
Legs == 1..Len(requests)

LegsOf(key) == {i \in Legs : requests[i] = key}

LegValue(i) ==
  IF callPc[i] = "returned" THEN Data(callResult[i].data) ELSE NullValue

\* The batch is over: every leg's get() has returned or thrown.
BatchOver == bPc # "idle" /\ \A i \in Legs : callPc[i] \in {"returned", "thrown"}

\* C11: aggregateServiceData never throws: whichever legs succeed and fail,
\* once they are all over it has resolved to a map whose entries are exactly
\* the requested keys, each holding the response data of its leg when that
\* leg succeeded and null when it failed.
C11_AggregateTotal ==
  BatchOver =>
    /\ bPc = "resolved"
    /\ returned # "none"
    /\ \A f \in FieldNames :
         /\ HasKey(Cell(returned), f) <=> LegsOf(f) # {}
         /\ LegsOf(f) # {} => \E i \in LegsOf(f) : Cell(returned)[f] = LegValue(i)
         /\ \A i \in LegsOf(f) : LegsOf(f) = {i} => Cell(returned)[f] = LegValue(i)

\* A two-leg batch under distinct keys resolved with one leg's data and
\* null for the other leg, which failed.
C11_Witness ==
  /\ bPc = "resolved"
  /\ Len(requests) = 2
  /\ requests[1] # requests[2]
  /\ callPc[1] = "returned"
  /\ callPc[2] = "thrown"
  /\ Cell(returned)[requests[1]] = Data(callResult[1].data)
  /\ Cell(returned)[requests[2]] = NullValue

\* C12: aggregateServiceData returns only after every leg has settled: in
\* the step that resolves it no leg is awaiting a response or asleep before
\* a retry, and from then on no step changes the returned map.
C12_ResolvesAfterAllLegs ==
  [][/\ (bPc' = "resolved") =>
          \A i \in 1..Len(requests') : callPc'[i] \in {"returned", "thrown"}
     /\ (bPc = "resolved") =>
          /\ returned' = returned
          /\ (Cell(returned))' = Cell(returned)]_vars

\* The batch resolved when its first leg, which slept before a second
\* attempt, completed after the second leg.
C12_Witness ==
  /\ bPc = "resolved"
  /\ order = <<2, 1>>
  /\ callSlept[1] # <<>>
  /\ settled = {1, 2}

\* C13: aggregateServiceData dispatches all legs before waiting for any:
\* from the moment it waits, every leg's GET has been issued, whatever has
\* become of the legs before it in the list (still waiting, asleep, failed
\* or done).
C13_AllLegsDispatched ==
  bPc # "idle" => \A i \in 1..Len(requests) : callSent[i] >= 1

\* The first leg has had no response at all, and the second leg was issued
\* and has already completed.
C13_Witness ==
  /\ bPc = "waiting"
  /\ Len(requests) = 2
  /\ callPc[1] = "awaiting" /\ callLog[1] = <<>>
  /\ callSent[2] >= 1 /\ callPc[2] = "returned"

\* Position of leg i in the order of completion.
CompletedAt(i) == CHOOSE p \in 1..Len(order) : order[p] = i

\* The leg naming key that completed last.
LastCompleted(key) ==
  CHOOSE i \in LegsOf(key) : \A j \in LegsOf(key) : CompletedAt(j) <= CompletedAt(i)

\* C14: when two legs of one batch name the same key, the returned map
\* holds under that key the result of the leg that completed later, data or
\* null; a failed leg that completes later replaces the data of a
\* successful leg that completed earlier.
C14_LaterCompletionWins ==
  bPc = "resolved" =>
    \A key \in BatchKeys :
      (\E i, j \in LegsOf(key) : i # j) =>
        Cell(returned)[key] = LegValue(LastCompleted(key))

\* Two legs under one key: the first succeeded, the second failed after it,
\* and the map holds null.
C14_Witness ==
  /\ bPc = "resolved"
  /\ Len(requests) = 2
  /\ requests[1] = requests[2]
  /\ order = <<1, 2>>
  /\ callPc[1] = "returned"
  /\ callPc[2] = "thrown"
  /\ Cell(returned)[requests[1]] = NullValue

\* ------------------------------------------------------------------------
\* Properties of enrichData (checked under SpecEnrich)
\* ------------------------------------------------------------------------

\* Legs naming key whose get() returned.
SucceededLegsOf(key) == {i \in LegsOf(key) : callPc[i] = "returned"}

\* What a failed leg leaves under a key no leg has stored data under.
FailureDefault(key) ==
  IF HasKey(baseData, key) THEN baseData[key] ELSE NullValue

\* C15 as stated: enrichData never throws because of a failing leg, and for
\* each failed leg the returned record has the key set to null when the key
\* was absent from the base record and keeps the base record's value for it
\* when the key was present.
C15_FailedLegNullOrOriginal ==
  BatchOver =>
    /\ bPc = "resolved"
    /\ \A i \in Legs :
         callPc[i] = "thrown" =>
           Cell(returned)[requests[i]] = FailureDefault(requests[i])

\* The leg naming key that completed last among those that succeeded.
LastSucceeded(key) ==
  CHOOSE i \in SucceededLegsOf(key) :
    \A j \in SucceededLegsOf(key) : CompletedAt(j) <= CompletedAt(i)

\* C15 amended: enrichData never throws because of a failing leg, and for
\* each failed leg whose key no successful leg names the returned record
\* has the key set to null when the key was absent from the base record and
\* keeps the base record's value when it was present; when a successful leg
\* names the same key the returned record holds that leg's data.
C15_FailedLegUnlessOtherSucceeded ==
  BatchOver =>
    /\ bPc = "resolved"
    /\ \A i \in Legs :
         callPc[i] = "thrown" =>
           Cell(returned)[requests[i]] =
             IF SucceededLegsOf(requests[i]) = {}
             THEN FailureDefault(requests[i])
             ELSE LegValue(LastSucceeded(requests[i]))

\* Both legs failed: the key that was in the base record kept its value and
\* the key that was not is null.
C15_Witness ==
  /\ bPc = "resolved"
  /\ Len(requests) = 2
  /\ callPc[1] = "thrown" /\ callPc[2] = "thrown"
  /\ baseData[requests[1]] = Data("old")
  /\ baseData[requests[2]] = Absent
  /\ Cell(returned)[requests[1]] = Data("old")
  /\ Cell(returned)[requests[2]] = NullValue

\* C16: enrichData leaves the caller's base record unchanged whatever the
\* legs do, and every field of the returned record whose key no enrichment
\* names has the value it has in the base record.
C16_BaseUntouched ==
  [][/\ baseData' = baseData
     /\ (bPc' = "resolved") =>
          \A f \in FieldNames :
            (\A i \in 1..Len(requests') : requests'[i] # f) =>
              (Cell(returned))'[f] = baseData[f]]_vars

\* A leg stored data under a key of the base record, another failed under
\* a key the record lacked, and the record's third field is named by none.
C16_Witness ==
  /\ bPc = "resolved"
  /\ Len(requests) = 2
  /\ requests[1] = "a" /\ requests[2] = "b"
  /\ baseData = BaseRecord(Data("old"), Absent)
  /\ Cell(returned) = BaseRecord(Data(callResult[1].data), NullValue)
  /\ callPc[2] = "thrown"

\* ------------------------------------------------------------------------
\* Properties of the verb methods (checked under SpecVerbs)
\* ------------------------------------------------------------------------

\* C21: the retry policy does not depend on the verb: whatever the verb, an
\* attempt that fails with a retryable error while budget is left is
\* followed by another attempt; every attempt carries the verb and, for
\* post, put and patch, the body the caller passed; and the transport
\* receives the request at most maxRetries + 1 times.
C21_RetryWhateverTheVerb ==
  pc # "idle" =>
    /\ Len(wire) = requestCount
    /\ Len(wire) <= config.retries + 1
    /\ \A i \in 1..Len(wire) :
         /\ wire[i].method = toLowerCase(method)
         /\ method \in {"POST", "PUT", "PATCH"} => wire[i].data = body
    /\ \A i \in 1..Len(log) :
         (~log[i].ok /\ FailedRetryable(i) /\ i <= config.retries) =>
           \/ Len(wire) > i
           \/ i = Len(log) /\ pc = "sleeping"

\* A PUT with a body, failing with a retryable error each time, reached the
\* transport maxRetries + 1 = 3 times with that body.
C21_Witness ==
  /\ method = "PUT"
  /\ pc = "thrown"
  /\ config.retries = 2
  /\ Len(wire) = 3
  /\ body \in Bodies
  /\ \A i \in 1..3 : wire[i] = [method |-> "put", data |-> body]

\* ------------------------------------------------------------------------
\* Properties of the error normalizer (checked under SpecNormalize)
\* ------------------------------------------------------------------------

\* The handler has answered.
Answered == resStatus # 0

\* The details an error object carries itself (AppError, Joi and locally
\* thrown errors).
CarriesOwnDetails ==
  /\ ~errIn.response.present
  /\ errIn.isApp \/ errIn.isJoi \/ (errIn.name = "Error" /\ errIn.codeNum = 0)
  /\ errIn.details # NoDetails

\* C22: the error normalizer never puts details into the envelope when
\* NODE_ENV is production, whatever the error shape, and when NODE_ENV is
\* development the envelope of an error that has details includes them.
C22_DetailsOnlyOutsideProduction ==
  Answered =>
    /\ nodeEnv = "production" => resBody.error.details = NoDetails
    /\ (nodeEnv = "development" /\ CarriesOwnDetails) =>
         resBody.error.details = errIn.details

\* A validation AppError with details was answered in production without
\* them.
C22_Witness ==
  /\ Answered
  /\ nodeEnv = "production"
  /\ errIn = AppError("Invalid input", "VALIDATION_ERROR", 400, SomeDetails)
  /\ resBody.error = [code |-> "VALIDATION_ERROR", message |-> "Invalid input",
                      details |-> NoDetails]

\* The error reaches the Joi branch of the normalizer.
IsJoiError == ~errIn.response.present /\ ~errIn.isApp /\ errIn.isJoi

\* C23: for a Joi validation error the normalizer answers 400 with code
\* VALIDATION_ERROR, and the envelope message is the messages of all the
\* validation details joined with ", " in their order.
C23_JoiMessagesJoined ==
  (Answered /\ IsJoiError /\ errIn.details # NoDetails /\ errIn.details.value # <<>>) =>
    /\ resStatus = 400
    /\ resBody.error.code = "VALIDATION_ERROR"
    /\ resBody.error.message = JoinComma(errIn.details.value)

\* An error with no upstream response that is no AppError, no Joi, Mongoose
\* or duplicate-key error and carries no status.
PlainError ==
  /\ ~errIn.response.present
  /\ ~errIn.isApp
  /\ ~errIn.isJoi
  /\ errIn.name \notin {"ValidationError", "CastError"}
  /\ errIn.codeNum # 11000
  /\ errIn.status = 0
  /\ errIn.statusCode = 0

\* C24 as stated: such an error is normalized to status 500 with code
\* INTERNAL and its own message, for every message text.
C24_PlainErrorInternal ==
  (Answered /\ PlainError) =>
    /\ resStatus = 500
    /\ resBody.error.code = "INTERNAL"
    /\ resBody.error.message = errIn.message

\* The words deriveCodeFromMessage looks for in a lower-cased message.
MessageKeywords ==
  {"duplicate", "e11000", "validation", "invalid", "not found", "missing",
   "timeout", "etimedout", "unauthorized", "auth", "forbidden", "access denied",
   "rate limit", "too many"}

HasKeyword(message) ==
  \E k \in MessageKeywords : Includes(toLowerCase(message), k)

\* C24 amended: such an error that also has no known error code and no
\* publicMessage is normalized to status 500 with its own message
\* ("Internal server error" when it has none); its code is INTERNAL when
\* the message contains none of the words deriveCodeFromMessage looks for,
\* and one of the codes those words stand for when it contains one.
C24_PlainErrorByMessage ==
  (Answered /\ PlainError /\ errIn.code \notin DOMAIN StatusByCode
     /\ errIn.publicMessage = "") =>
    /\ resStatus = 500
    /\ resBody.error.message =
         (IF errIn.message = "" THEN "Internal server error" ELSE errIn.message)
    /\ ~HasKeyword(errIn.message) => resBody.error.code = "INTERNAL"
    /\ HasKeyword(errIn.message) =>
         resBody.error.code \in {"DUPLICATE_KEY", "VALIDATION_ERROR", "NOT_FOUND",
                                 "TIMEOUT", "AUTH_REQUIRED", "FORBIDDEN",
                                 "RATE_LIMITED"}

\* new Error('Something went wrong') was answered with 500 / INTERNAL and
\* its message.
C24_Witness ==
  /\ Answered
  /\ errIn = [BlankError EXCEPT !.message = "Something went wrong"]
  /\ resStatus = 500
  /\ resBody.error.code = "INTERNAL"
  /\ resBody.error.message = "Something went wrong"

\* ------------------------------------------------------------------------
\* Properties of the example routes (checked under SpecList, SpecCreate)
\* ------------------------------------------------------------------------

\* C25: in the GET /api/example handler, when the leg to serviceA fails the
\* handler returns an error response, and when only the leg to serviceB
\* fails it answers successfully with the primary items and empty metadata.
C25_PrimaryFailureIsError ==
  (route = "list" /\ reply # NoResult) =>
    /\ callPc[1] = "thrown" => ~reply.success
    /\ (callPc[1] = "returned" /\ callPc[2] = "thrown") =>
         /\ reply.success
         /\ reply.data.items = <<callResult[1].data>>
         /\ reply.data.metadata = <<>>

\* C26: in the POST /api/example handler the secondary posts are issued only
\* once the create call on serviceA has succeeded; the 201 answer is given
\* in the step that issues them, while both are still pending, and is never
\* changed afterwards, whatever becomes of them; when the create call fails
\* the error is forwarded and no secondary post is issued.
C26_SecondariesAfterCreate ==
  [][route' = "create" =>
       /\ (\E c \in Secondaries : callSent'[c] > 0) => pc' = "returned"
       /\ (reply = NoResult /\ reply' # NoResult /\ reply'.success) =>
            /\ reply' = Created(result')
            /\ \A c \in Secondaries : callSent'[c] = 1 /\ callPc'[c] = "awaiting"
       /\ reply # NoResult => reply' = reply
       /\ pc' = "thrown" =>
            /\ reply' = Forwarded(thrown')
            /\ \A c \in Secondaries : callSent'[c] = 0]_vars

C26_Witness ==
  /\ route = "create"
  /\ pc = "returned"
  /\ reply = Created(result)
  /\ callPc[1] = "thrown"
  /\ callPc[2] = "thrown"

\* The keys of the batch are pairwise distinct.
DistinctKeys == \A i, j \in Legs : requests[i] = requests[j] => i = j

\* The object the batch function starts from.
StartObject == IF route = "aggregate" THEN EmptyObject ELSE baseData

\* What the outcome of leg i alone puts under its key.
OwnEntry(i) ==
  IF callPc[i] = "returned" THEN Data(callResult[i].data)
  ELSE IF route = "aggregate" THEN NullValue
  ELSE FailureDefault(requests[i])

\* The record the legs' own outcomes determine; `order` is not read.
OutcomeRecord ==
  [f \in FieldNames |->
     IF LegsOf(f) = {} THEN StartObject[f]
     ELSE OwnEntry(CHOOSE i \in LegsOf(f) : TRUE)]

\* C27: when all keys in a batch are distinct, the record aggregateServiceData
\* or enrichData returns is the one determined by each leg's own outcome, a
\* successful leg's key holding its response data, in whatever order the
\* legs completed: two runs with the same outcomes return the same record.
C27_OrderIndependent ==
  (route \in {"aggregate", "enrich"} /\ DistinctKeys /\ BatchOver) =>
    /\ bPc = "resolved"
    /\ Cell(returned) = OutcomeRecord
    /\ \A i \in Legs :
         callPc[i] = "returned" =>
           Cell(returned)[requests[i]] = Data(callResult[i].data)

\* Two legs under distinct keys completed against the order of dispatch,
\* the first succeeding and the second failing.
C27_Witness ==
  /\ route = "enrich"
  /\ bPc = "resolved"
  /\ Len(requests) = 2
  /\ DistinctKeys
  /\ order = <<2, 1>>
  /\ callPc[1] = "returned"
  /\ callPc[2] = "thrown"

\* ------------------------------------------------------------------------
\* Properties of the gateway's health endpoint (checked under SpecGateway)
\* ------------------------------------------------------------------------

\* Configured services reported healthy.
HealthyServices == {s \in gwServices : serviceStatuses[s].status = "healthy"}

\* C28: the health endpoint answers once all probes have settled, with one
\* entry for every configured service and no other; the overall status is
\* healthy when every service is healthy or none is configured, unhealthy
\* when at least one is configured and none is healthy, degraded otherwise;
\* the answer is HTTP 503 with success=false exactly when the overall
\* status is unhealthy, and HTTP 200 with success=true otherwise.
C28_HealthEndpoint ==
  /\ gwPc = "answered" <=> (gwPc # "idle" /\ gwPending = {})
  /\ gwPc = "answered" =>
       /\ \A s \in ServiceNames : serviceStatuses[s] # NoResult <=> s \in gwServices
       /\ gwReply.data.services = serviceStatuses
       /\ gwReply.data.status =
            IF HealthyServices = gwServices THEN "healthy"
            ELSE IF HealthyServices = {} THEN "unhealthy"
            ELSE "degraded"
       /\ IF gwReply.data.status = "unhealthy"
          THEN gwReply.httpStatus = 503 /\ ~gwReply.success
          ELSE gwReply.httpStatus = 200 /\ gwReply.success

\* Three services, one of them down: degraded, answered 200.
C28_Witness ==
  /\ gwPc = "answered"
  /\ gwServices = ServiceNames
  /\ Cardinality(HealthyServices) = 2
  /\ gwReply.data.status = "degraded"
  /\ gwReply.httpStatus = 200

\* ------------------------------------------------------------------------
\* Properties of the MongoDB service template (checked under SpecStartFair
\* and SpecStart)
\* ------------------------------------------------------------------------

\* A step in which a connect attempt fails.
AttemptFails == dbPc = "connecting" /\ dbPc' # "connecting" /\ ~isConnected'

\* C29, what a failed attempt does: outside production it does not reject
\* the caller's promise and sets a timer of 5 seconds, after the first
\* failure and after every later one, and the next attempt is made when
\* that timer has run down, not by the caller; in production it rejects
\* and sets no timer.
C29_FailedAttempt ==
  /\ AttemptFails =>
       IF dbEnv # "production"
       THEN /\ dbPc' = "retryWait"
            /\ retryTimer' = ReconnectDelayMs
            /\ firstCall' = "resolved"
       ELSE /\ dbPc' = "failed"
            /\ retryTimer' = 0
            /\ firstCall' = "rejected"
  /\ (dbPc # "connecting" /\ dbPc' = "connecting" /\ firstCall # "none") =>
       /\ dbPc = "retryWait"
       /\ retryTimer = 0
       /\ firstCall' = firstCall

\* C29: in a non-production environment a failed Database.connect() does
\* not throw and schedules another attempt 5 seconds later, again after
\* each further failure, so that if MongoDB eventually becomes and stays
\* reachable the manager eventually has isConnected = true without the
\* caller calling connect again; in production a failed connect throws and
\* schedules no retry.
C29_RetryUntilConnected ==
  /\ [][C29_FailedAttempt]_vars
  /\ <>[](dbEnv # "production" /\ reachable) => <>isConnected

\* Connected by the third attempt, the caller having called once.
C29_Witness ==
  /\ dbEnv = "test"
  /\ connectCalls = 3
  /\ isConnected
  /\ firstCall = "resolved"

\* C30: in every run of startServer, at the moment server.listen is called
\* the database manager's isConnected is true.
C30_ListenOnlyConnected ==
  [][(srvPc # "listening" /\ srvPc' = "listening") => isConnected']_vars

====
